---------------------------- MODULE Spec2Model ----------------------------
(***************************************************************************)
(* A model of the AI Employee vault engine:                                *)
(*   scripts/orchestrator.py  (Orchestrator: the polling loop),            *)
(*   scripts/plan_creator.py  (PlanCreator: the deterministic intake path),*)
(*   scripts/gmail_watcher.py (the shape of the items it writes),          *)
(* together with the external actors the code waits for: the watcher that  *)
(* drops items, the reasoning agent, the human who approves or rejects,    *)
(* and the send_email.py executor.                                         *)
(*                                                                         *)
(* Text is modelled as a sequence of lines, a line as a sequence of        *)
(* tokens.  A token stands for a run of characters; " " is a run of        *)
(* blanks.  The regular expressions of the code are evaluated on that      *)
(* representation (a key such as "to:" is one token).                      *)
(***************************************************************************)
EXTENDS Naturals, Sequences, FiniteSets, TLC

(***************************************************************************)
(* Bounds of the model.                                                    *)
(***************************************************************************)
\* how many records the action log may hold before the engine is stopped
MaxLog == 2

(***************************************************************************)
(* Text helpers.                                                           *)
(***************************************************************************)
IsWs(t) == t = " "

AllWs(line) == \A i \in 1..Len(line) : IsWs(line[i])

RECURSIVE LStrip(_)
LStrip(s) == IF s = <<>> THEN <<>>
             ELSE IF IsWs(Head(s)) THEN LStrip(Tail(s)) ELSE s

RECURSIVE RStrip(_)
RStrip(s) == IF s = <<>> THEN <<>>
             ELSE IF IsWs(s[Len(s)]) THEN RStrip(SubSeq(s, 1, Len(s) - 1)) ELSE s

\* str.strip()
Strip(s) == RStrip(LStrip(s))

\* `tok in s` for a needle that is one token
Contains(s, tok) == \E i \in 1..Len(s) : s[i] = tok

(***************************************************************************)
(* Orchestrator._extract_field: re.search(rf'^{field}:\s*(.+)$', content,  *)
(* re.MULTILINE), then group(1).strip(), else the default.                 *)
(*   \s* also runs over line breaks, so a key whose own line holds nothing *)
(* but blanks takes the next line that holds text; when no such line       *)
(* follows, (.+) can still match a run of blanks, which strips to the      *)
(* empty string.                                                           *)
(***************************************************************************)
\* the first line at or after j that is not blank, or 0
RECURSIVE NextTextLine(_, _)
NextTextLine(content, j) ==
    IF j > Len(content) THEN 0
    ELSE IF ~AllWs(content[j]) THEN j
    ELSE NextTextLine(content, j + 1)

\* some line i..Len holds at least one blank (all of them are blank lines)
BlankRunFrom(content, i) ==
    \/ Len(content[i]) > 1
    \/ \E j \in (i + 1)..Len(content) : content[j] # <<>>

\* the match of the regular expression that starts at line i:
\* <<TRUE, group(1).strip()>>, or <<FALSE, <<>>>> when there is none
MatchFieldAt(content, key, i) ==
    IF content[i] = <<>> \/ content[i][1] # key THEN <<FALSE, <<>>>>
    ELSE LET rest == Tail(content[i])
             j    == NextTextLine(content, i + 1)
         IN  IF ~AllWs(rest) THEN <<TRUE, Strip(rest)>>
             ELSE IF j # 0 THEN <<TRUE, Strip(content[j])>>
             ELSE IF BlankRunFrom(content, i) THEN <<TRUE, <<>>>>
             ELSE <<FALSE, <<>>>>

RECURSIVE ExtractFieldFrom(_, _, _, _)
ExtractFieldFrom(content, key, default, i) ==
    IF i > Len(content) THEN default
    ELSE LET m == MatchFieldAt(content, key, i)
         IN  IF m[1] THEN m[2] ELSE ExtractFieldFrom(content, key, default, i + 1)

ExtractField(content, key) == ExtractFieldFrom(content, key, <<>>, 1)

(***************************************************************************)
(* PlanCreator._parse_email_frontmatter: one unanchored search per key,    *)
(* re.search(r'to:\s*(.+)', content), group(1).strip().  The key may stand *)
(* anywhere in a line.                                                     *)
(***************************************************************************)
\* the match that starts at token k of line i
MatchKeyAt(content, key, i, k) ==
    IF content[i][k] # key THEN <<FALSE, <<>>>>
    ELSE LET rest == SubSeq(content[i], k + 1, Len(content[i]))
             j    == NextTextLine(content, i + 1)
         IN  IF ~AllWs(rest) THEN <<TRUE, Strip(rest)>>
             ELSE IF j # 0 THEN <<TRUE, Strip(content[j])>>
             ELSE IF rest # <<>> \/ \E l \in (i + 1)..Len(content) : content[l] # <<>>
                  THEN <<TRUE, <<>>>>
             ELSE <<FALSE, <<>>>>

RECURSIVE SearchKeyFrom(_, _, _, _)
SearchKeyFrom(content, key, i, k) ==
    IF i > Len(content) THEN <<FALSE, <<>>>>
    ELSE IF k > Len(content[i]) THEN SearchKeyFrom(content, key, i + 1, 1)
    ELSE LET m == MatchKeyAt(content, key, i, k)
         IN  IF m[1] THEN m ELSE SearchKeyFrom(content, key, i, k + 1)

SearchKey(content, key) == SearchKeyFrom(content, key, 1, 1)

\* a line that starts the heading "# Email Content" (the search is unanchored,
\* so "## Email Content" holds it too)
IsEmailContentHeading(line) ==
    \E k \in 1..Len(line) :
        /\ line[k] \in {"#", "##"}
        /\ Len(line) >= k + 4
        /\ SubSeq(line, k + 1, k + 4) = <<" ", "Email", " ", "Content">>
        /\ AllWs(SubSeq(line, k + 5, Len(line)))

RECURSIVE HeadingLine(_, _)
HeadingLine(content, i) ==
    IF i > Len(content) THEN 0
    ELSE IF IsEmailContentHeading(content[i]) THEN i
    ELSE HeadingLine(content, i + 1)

\* (?:^---|\n# |\Z): the line that ends the body.  "\n# " needs the line break
\* before it inside the searched text, so the first line of the body is ended
\* by "---" only.
EndsBody(line, first) ==
    /\ line # <<>>
    /\ \/ line[1] = "---"
       \/ ~first /\ Len(line) >= 2 /\ line[1] = "#" /\ line[2] = " "

\* the tokens of lines i.. up to the line that ends the body
RECURSIVE BodyTokens(_, _, _)
BodyTokens(content, i, first) ==
    IF i > Len(content) \/ EndsBody(content[i], first) THEN <<>>
    ELSE content[i] \o <<"\n">> \o BodyTokens(content, i + 1, FALSE)

\* the group of r'# Email Content\s*\n(.*?)(?:^---|\n# |\Z)' for the heading
\* at line h: \s*\n runs over the blank lines after the heading
BodyAfter(content, h) ==
    LET g == NextTextLine(content, h + 1)
    IN  IF g = 0 THEN <<>> ELSE BodyTokens(content, g, TRUE)

\* str.strip() of a text whose line breaks are "\n" tokens
IsSpace(t) == t = " " \/ t = "\n"

RECURSIVE StripText(_)
StripText(s) ==
    IF s = <<>> THEN <<>>
    ELSE IF IsSpace(Head(s)) THEN StripText(Tail(s))
    ELSE IF IsSpace(s[Len(s)]) THEN StripText(SubSeq(s, 1, Len(s) - 1))
    ELSE s

EmailKeys == {"from:", "to:", "subject:", "received:", "priority:", "message_id:"}

FieldOfKey(key) ==
    CASE key = "from:" -> "from"
      [] key = "to:" -> "to"
      [] key = "subject:" -> "subject"
      [] key = "received:" -> "received"
      [] key = "priority:" -> "priority"
      [] key = "message_id:" -> "message_id"

\* the dict the parser returns: a function from the keys it found
ParseEmailFrontmatter(content) ==
    LET found == {key \in EmailKeys : SearchKey(content, key)[1]}
        h     == HeadingLine(content, 1)
        flds  == {FieldOfKey(key) : key \in found}
                    \cup (IF h # 0 /\ h < Len(content) THEN {"body"} ELSE {})
        KeyOf(f) == CHOOSE key \in EmailKeys : FieldOfKey(key) = f
    IN  [f \in flds |->
            IF f = "body" THEN StripText(BodyAfter(content, h))
            ELSE SearchKey(content, KeyOf(f))[2]]

\* dict.get(field, default)
Get(data, f, default) == IF f \in DOMAIN data THEN data[f] ELSE default

(***************************************************************************)
(* PlanCreator._check_approval_needed.                                     *)
(***************************************************************************)
KnownContacts == {"@yourcompany.com", "@yourdomain.com"}

SensitiveKeywords == {"payment", "invoice", "contract", "legal", "money", "bank"}

\* str.lower() on the tokens the model's texts use
LowerTok(t) ==
    CASE t = "Invoice" -> "invoice"
      [] t = "INVOICE" -> "invoice"
      [] t = "Payment" -> "payment"
      [] t = "Hello" -> "hello"
      [] t = "Greeting" -> "greeting"
      [] t = "Urgent" -> "urgent"
      [] t = "How" -> "how"
      [] t = "No" -> "no"
      [] t = "Subject" -> "subject"
      [] t = "See" -> "see"
      [] t = "Please" -> "please"
      [] t = "Bob" -> "bob"
      [] t = "Call" -> "call"
      [] t = "**From:**" -> "**from:**"
      [] t = "**To:**" -> "**to:**"
      [] t = "**Subject:**" -> "**subject:**"
      [] t = "**Date:**" -> "**date:**"
      [] OTHER -> t

Lower(s) == [i \in 1..Len(s) |-> LowerTok(s[i])]

CheckApprovalNeeded(email_data) ==
    LET to_email == Get(email_data, "to", <<>>)
        subject  == Lower(Get(email_data, "subject", <<>>))
        body     == Lower(Get(email_data, "body", <<>>))
    IN  IF to_email # <<>> /\ ~\E domain \in KnownContacts : Contains(to_email, domain)
        THEN TRUE
        ELSE IF \E f \in DOMAIN email_data : Contains(email_data[f], "attachments")
        THEN TRUE
        ELSE \E kw \in SensitiveKeywords : Contains(subject, kw) \/ Contains(body, kw)

(***************************************************************************)
(* File names.  A message id is <<first 8 characters, the rest>>.          *)
(***************************************************************************)
\* f'EMAIL_{message["id"]}.md'
ItemName(id) == <<"EMAIL_">> \o id \o <<".md">>

\* s[:8] of a value whose first token is 8 characters long
First8(v) == IF v = <<>> THEN <<>> ELSE <<Head(v)>>

\* datetime.now().strftime('%Y%m%d_%H%M%S')
Timestamp == <<"20261105", "_101500">>

\* datetime.now().isoformat() at the start of the run
Now == "2026-11-05T10:15:00"

\* the seconds the clock of a run may advance by
MaxClock == 2

\* datetime.now().isoformat() when the clock reads c seconds after the start
Isoformat(c) == "2026-11-05T10:15:0" \o ToString(c)

\* datetime.now().replace(hour=23, minute=59).isoformat()
EndOfDay(c) == "2026-11-05T23:59:0" \o ToString(c)

\* a plan id taken from the day's date for every item
PlanIdOfTheDay(email_data) == First8(Timestamp)

PlanId(email_data) == First8(Get(email_data, "message_id", Timestamp))

PlanName(email_data) == <<"PLAN_email_">> \o PlanId(email_data) \o <<".md">>

ApprovalName(email_data) ==
    <<"APPROVAL_email_reply_">> \o PlanId(email_data) \o <<".md">>

(***************************************************************************)
(* GmailWatcher.create_action_file: the item written to Needs_Action.      *)
(* A message is [id, hdr, body, attachments]; hdr maps the header names    *)
(* the message carries to their values.                                    *)
(***************************************************************************)
\* `sub in s` for a needle of several tokens
ContainsSeq(s, sub) ==
    \E i \in 1..(Len(s) + 1) :
        /\ i + Len(sub) - 1 <= Len(s)
        /\ SubSeq(s, i, i + Len(sub) - 1) = sub

\* GmailWatcher._determine_priority
DeterminePriority(subject, body) ==
    LET text == Lower(subject \o <<" ">> \o body)
    IN  IF \E kw \in {"urgent", "asap", "immediately", "emergency"} : Contains(text, kw)
        THEN "high"
        ELSE IF \E kw \in {"invoice", "payment", "deadline", "review"} : Contains(text, kw)
        THEN "medium"
        ELSE "normal"

ItemText(msg) ==
    LET From    == Get(msg.hdr, "From", <<"Unknown">>)
        To      == Get(msg.hdr, "To", <<>>)
        Subject == Get(msg.hdr, "Subject", <<"No", " ", "Subject">>)
        Date    == Get(msg.hdr, "Date", <<>>)
        prio    == DeterminePriority(Get(msg.hdr, "Subject", <<>>), msg.body)
    IN  << <<"---">>,
           <<"type:", " ", "email">>,
           <<"from:", " ">> \o From,
           <<"to:", " ">> \o To,
           <<"subject:", " ">> \o Subject,
           <<"received:", " ", Now>>,
           <<"priority:", " ", prio>>,
           <<"status:", " ", "pending">>,
           <<"message_id:", " ">> \o msg.id,
           <<"---">>,
           <<>>,
           <<"#", " ", "Email", " ", "Content">>,
           <<>>,
           <<"**From:**", " ">> \o From \o <<" ">>,
           <<"**To:**", " ">> \o To \o <<" ">>,
           <<"**Subject:**", " ">> \o Subject \o <<" ">>,
           <<"**Date:**", " ">> \o Date,
           <<>>,
           <<"---">>,
           <<>>,
           IF msg.body # <<>> THEN msg.body ELSE <<"*No text content*">>,
           <<>>,
           <<"---">>,
           <<>>,
           <<"#", " ", "Attachments">>,
           IF msg.attachments # <<>> THEN <<"-", " ">> \o msg.attachments
                                     ELSE <<"*No attachments*">>,
           <<>>,
           <<"#", " ", "Suggested", " ", "Actions">>,
           <<"-", " ", "[ ]", " ", "Review email content">>,
           <<"-", " ", "[ ]", " ", "Reply to sender">>,
           <<"-", " ", "[ ]", " ", "Take required action">>,
           <<"-", " ", "[ ]", " ", "Archive after processing">>,
           <<>>,
           <<"---">>,
           <<"*Generated by Gmail Watcher v0.1 (Silver Tier)*">> >>

(***************************************************************************)
(* PlanCreator._generate_suggested_reply, _create_plan and                 *)
(* _create_approval_request: the texts they write.                         *)
(***************************************************************************)
GreetingReply ==
    << <<"Hi,">>, <<>>,
       <<"Thank you for your message! I'm doing well, thank you.">>, <<>>,
       <<"Hope you're doing great too.">>, <<>>,
       <<"Best regards">> >>

InvoiceReply ==
    << <<"Dear Valued Client,">>, <<>>,
       <<"Thank you for your inquiry regarding the invoice.">>, <<>>,
       <<"I will process your request and send the invoice shortly.">>, <<>>,
       <<"Best regards">> >>

UrgentReply ==
    << <<"Dear Sender,">>, <<>>,
       <<"I received your urgent message and will respond as soon as possible.">>, <<>>,
       <<"Thank you for your patience.">>, <<>>,
       <<"Best regards">> >>

GenericReply ==
    << <<"Dear Sender,">>, <<>>,
       <<"Thank you for your email. I have received your message and will respond shortly.">>,
       <<>>,
       <<"Best regards">> >>

GenerateSuggestedReply(email_data) ==
    LET subject == Lower(Get(email_data, "subject", <<>>))
        body    == Lower(Get(email_data, "body", <<>>))
    IN  IF Contains(subject, "greeting")
           \/ ContainsSeq(body, <<"how", " ", "are", " ", "you">>)
        THEN GreetingReply
        ELSE IF Contains(subject, "invoice") \/ Contains(subject, "payment")
        THEN InvoiceReply
        ELSE IF Contains(subject, "urgent") \/ Contains(body, "asap")
        THEN UrgentReply
        ELSE GenericReply

\* the tokens after the last "<"  (str.split('<')[-1])
RECURSIVE AfterLast(_, _)
AfterLast(s, tok) ==
    IF ~Contains(s, tok) THEN s
    ELSE AfterLast(Tail(s), tok)

\* str.strip('>')
RECURSIVE StripTok(_, _)
StripTok(s, tok) ==
    IF s = <<>> THEN <<>>
    ELSE IF Head(s) = tok THEN StripTok(Tail(s), tok)
    ELSE IF s[Len(s)] = tok THEN StripTok(SubSeq(s, 1, Len(s) - 1), tok)
    ELSE s

\* email_data.get('from', '').split('<')[-1].strip('>').strip()
ReplyAddress(email_data) ==
    Strip(StripTok(AfterLast(Get(email_data, "from", <<>>), "<"), ">"))

PlanText(email_data, needs_approval, c) ==
    LET subject  == Get(email_data, "subject", <<"No", " ", "Subject">>)
        priority == Get(email_data, "priority", <<"normal">>)
    IN  << <<"---">>,
           <<"created:", " ", Isoformat(c)>>,
           <<"status:", " ", "in_progress">>,
           <<"objective:", " ", "Process email and send reply">>,
           <<"related_to:", " ", "EMAIL_">> \o PlanId(email_data) \o <<".md">>,
           <<"approval_required:", " ", IF needs_approval THEN "true" ELSE "false">>,
           <<"---">>,
           <<>>,
           <<"#", " ", "Plan: Process Email -", " ">> \o subject,
           <<>>,
           <<"##", " ", "Objective">>,
           <<"Process incoming email and send appropriate reply.">>,
           <<>>,
           <<"##", " ", "Email", " ", "Details">>,
           <<>>,
           <<"|", " ", "Field", " ", "|", " ", "Value", " ", "|">>,
           <<"|-------|-------|">>,
           <<"|", " ", "From", " ", "|", " ">>
               \o Get(email_data, "from", <<"Unknown">>) \o <<" ", "|">>,
           <<"|", " ", "To", " ", "|", " ">>
               \o Get(email_data, "to", <<"N/A">>) \o <<" ", "|">>,
           <<"|", " ", "Subject", " ", "|", " ">> \o subject \o <<" ", "|">>,
           <<"|", " ", "Received", " ", "|", " ">>
               \o Get(email_data, "received", <<"Unknown">>) \o <<" ", "|">>,
           <<"|", " ", "Priority", " ", "|", " ">> \o priority \o <<" ", "|">>,
           <<>>,
           <<"##", " ", "Steps">>,
           <<>>,
           <<"-", " ", "[x]", " ", "**Step 1: Read and analyze email**">>,
           <<" ", "-", " ", "Email received and parsed">>,
           <<" ", "-", " ", "Priority determined:", " ">> \o priority,
           <<>>,
           <<"-", " ", "[ ]", " ", "**Step 2: Draft reply**">>,
           <<" ", "-", " ", "Compose appropriate response">>,
           <<" ", "-", " ", "Review for tone and accuracy">>,
           <<>>,
           <<"-", " ", "[ ]", " ",
             IF needs_approval THEN "**Step 3: Request approval**"
                               ELSE "**Step 3: Send email**">>,
           <<" ", "-", " ",
             IF needs_approval THEN "Approval request created in /Pending_Approval/"
                               ELSE "Send reply via Email MCP">>,
           <<>>,
           <<"-", " ", "[ ]", " ", "**Step 4: Log and archive**">>,
           <<" ", "-", " ", "Log action in /Logs/">>,
           <<" ", "-", " ", "Move email to /Done/">>,
           <<>>,
           <<"##", " ", "Notes">>,
           <<>>,
           <<"Auto-generated plan by Plan Creator v0.1">>,
           <<>>,
           <<"---">>,
           <<"*Generated automatically by AI Employee Plan Creator*">> >>

ApprovalText(email_data, c) ==
    LET subject  == Get(email_data, "subject", <<"No", " ", "Subject">>)
        priority == Get(email_data, "priority", <<"normal">>)
    IN  << <<"---">>,
           <<"type:", " ", "approval_request">>,
           <<"action:", " ", "email_send">>,
           <<"to:", " ">> \o ReplyAddress(email_data),
           <<"subject:", " ", "Re:", " ">> \o subject,
           <<"created:", " ", Isoformat(c)>>,
           <<"expires:", " ", EndOfDay(c)>>,
           <<"status:", " ", "pending">>,
           <<"priority:", " ">> \o priority,
           <<"---">>,
           <<>>,
           <<"#", " ", "Approval Required: Send Email Reply">>,
           <<>>,
           <<"##", " ", "Email", " ", "Details">>,
           <<>>,
           <<"|", " ", "Field", " ", "|", " ", "Value", " ", "|">>,
           <<"|-------|-------|">>,
           <<"|", " ", "To", " ", "|", " ">>
               \o Get(email_data, "from", <<"Unknown">>) \o <<" ", "|">>,
           <<"|", " ", "Subject", " ", "|", " ", "Re:", " ">> \o subject \o <<" ", "|">>,
           <<"|", " ", "Original Priority", " ", "|", " ">> \o priority \o <<" ", "|">>,
           <<>>,
           <<"##", " ", "Suggested", " ", "Reply">>,
           <<>> >>
        \o GenerateSuggestedReply(email_data) \o
        << <<>>,
           <<"##", " ", "Why Approval Required">>,
           <<>>,
           <<"This email requires human approval before sending because:">>,
           <<"-", " ", "Replying to external contact">>,
           <<"-", " ", "Ensure response is appropriate and accurate">>,
           <<>>,
           <<"---">>,
           <<>>,
           <<"##", " ", "To Approve">>,
           <<>>,
           <<"Move this file to /Approved folder.">>,
           <<>>,
           <<"##", " ", "To Reject">>,
           <<>>,
           <<"Move this file to /Rejected folder and add a comment.">>,
           <<>>,
           <<"---">>,
           <<"*Generated automatically by AI Employee Plan Creator*">> >>

(***************************************************************************)
(* The messages the mailbox may hold, and the approval requests an         *)
(* external writer (the reasoning agent, following step 4 of its           *)
(* instruction, or the human) may put into Pending_Approval.               *)
(***************************************************************************)
Msg1 == [id |-> <<"18c2a4f0", "9b1d77e3">>,
         hdr |-> [h \in {"From", "To", "Subject"} |->
                    CASE h = "From" -> <<"Bob", " ", "<", "bob", "@external.com", ">">>
                      [] h = "To" -> <<"me", "@yourcompany.com">>
                      [] h = "Subject" -> <<"Invoice", " ", "#4">>],
         body |-> <<"Please", " ", "send", " ", "payment">>,
         attachments |-> <<>>]

\* shares its first 8 characters with Msg1
Msg2 == [id |-> <<"18c2a4f0", "5e6f0a12">>,
         hdr |-> [h \in {"From", "To", "Subject"} |->
                    CASE h = "From" -> <<"alice", "@yourcompany.com">>
                      [] h = "To" -> <<"me", "@yourcompany.com">>
                      [] h = "Subject" -> <<"Hello">>],
         body |-> <<"See", " ", "you", " ", "soon">>,
         attachments |-> <<>>]

Msg3 == [id |-> <<"7d3e9b55", "c0ffee00">>,
         hdr |-> [h \in {"From", "To", "Subject"} |->
                    CASE h = "From" -> <<"carol", "@partner.org">>
                      [] h = "To" -> <<"team", "@lists.partner.org">>
                      [] h = "Subject" -> <<"Urgent", " ", "question">>],
         body |-> <<"Call", " ", "me", " ", "asap">>,
         attachments |-> <<>>]

\* the mailbox of the orchestration model
MessageKeys == {"Msg1", "Msg2"}

\* the mailbox plan_creator.py is run over time and again
PlanKeys == MessageKeys \cup {"Msg3"}

Message(k) == CASE k = "Msg1" -> Msg1 [] k = "Msg2" -> Msg2 [] k = "Msg3" -> Msg3

(***************************************************************************)
(* The messages the plan creator's functions are applied to, one at a      *)
(* time: every combination of the headers, texts and ids below.  A header  *)
(* given as <<>> is one the message does not carry.                        *)
(***************************************************************************)
Senders ==
    { <<"alice", "@yourcompany.com">>,
      <<"billing@", "bank", ".example">>,
      <<"Bob", " ", "<", "bob", "@external.com", ">">>,
      <<"Bob", " ", "<", ">">>,
      <<>> }

Recipients ==
    { <<>>,
      <<"me", "@yourcompany.com">>,
      <<"me", "@yourdomain.com">>,
      <<"sales", "@other.org">>,
      <<"alice", "@yourcompany.com", ".evil.org">> }

Subjects ==
    { <<>>,
      <<"Hello">>,
      <<"INVOICE", " ", "#4">>,
      <<"new", " ", "contract">>,
      <<"see", " ", "attachments">>,
      <<"Urgent", " ", "question">>,
      <<"Greeting", " ", "from", " ", "Bob">> }

Bodies ==
    { <<>>,
      <<"See", " ", "you", " ", "soon">>,
      <<"Please", " ", "send", " ", "Payment">>,
      <<"Hello,", " ", "How", " ", "are", " ", "you", "?">>,
      <<"reply", " ", "asap">> }

AttachmentLists == { <<>>, <<"report.pdf (12.0 KB)">> }

\* a Gmail id of 16 characters and an id of 8
MessageIds == { <<"18c2a4f0", "9b1d77e3">>, <<"7d3e9b55">> }

Headers(from, to, subject) ==
    [h \in {"From"} \cup (IF to = <<>> THEN {} ELSE {"To"})
                    \cup (IF subject = <<>> THEN {} ELSE {"Subject"}) |->
        CASE h = "From" -> from
          [] h = "To" -> to
          [] h = "Subject" -> subject]

\* the messages of the mailbox; one with an empty From header is also there
\* without the header
Mailbox ==
    LET signed == { [id |-> i, hdr |-> Headers(f, t, s), body |-> b, attachments |-> a] :
                      i \in MessageIds, f \in Senders, t \in Recipients,
                      s \in Subjects, b \in Bodies, a \in AttachmentLists }
    IN  signed \cup
        { [m EXCEPT !.hdr = [h \in (DOMAIN m.hdr) \ {"From"} |-> m.hdr[h]]] :
            m \in {x \in signed : x.hdr["From"] = <<>>} }

DocUnknownAction ==
    << <<"---">>,
       <<"type:", " ", "approval_request">>,
       <<"action:", " ", "linkedin_post">>,
       <<"status:", " ", "pending">>,
       <<"---">>,
       <<>>,
       <<"##", " ", "Content">>,
       <<"We are hiring">> >>

DocNoAction ==
    << <<"---">>,
       <<"type:", " ", "approval_request">>,
       <<"status:", " ", "pending">>,
       <<"---">>,
       <<>>,
       <<"Please", " ", "confirm">> >>

DocNoTo ==
    << <<"---">>,
       <<"type:", " ", "approval_request">>,
       <<"action:", " ", "email_send">>,
       <<"subject:", " ", "Re:", " ", "Hello">>,
       <<"---">>,
       <<>>,
       <<"##", " ", "Suggested", " ", "Reply">>,
       <<"Thanks">> >>

DocNoSubject ==
    << <<"---">>,
       <<"type:", " ", "approval_request">>,
       <<"action:", " ", "email_send">>,
       <<"to:", " ", "dave", "@external.com">>,
       <<"---">>,
       <<>>,
       <<"##", " ", "Suggested", " ", "Reply">>,
       <<"Thanks">> >>

DocComplete ==
    << <<"---">>,
       <<"type:", " ", "approval_request">>,
       <<"action:", " ", "email_send">>,
       <<"to:", " ", "dave", "@external.com">>,
       <<"subject:", " ", "Re:", " ", "Hello">>,
       <<"---">>,
       <<>>,
       <<"##", " ", "Suggested", " ", "Reply">>,
       <<"Thanks">> >>

ExternalDocs == {"unknown_action", "no_action", "no_to", "no_subject", "complete"}

ExternalDoc(k) ==
    CASE k = "unknown_action" -> DocUnknownAction
      [] k = "no_action" -> DocNoAction
      [] k = "no_to" -> DocNoTo
      [] k = "no_subject" -> DocNoSubject
      [] k = "complete" -> DocComplete

\* the name of the request written from outside
ExternalName == <<"APPROVAL_external.md">>

(***************************************************************************)
(* Orchestrator._extract_email_body on content.split('\n').  A heading of   *)
(* three hashes is written <<"#", "##", ...>>, so that '## Content' is      *)
(* found inside '### Content' as the unanchored search finds it.  The body *)
(* is a text whose line breaks are "\n" tokens.                            *)
(***************************************************************************)
\* the section titles of the four patterns, in the order they are tried
Patterns ==
    << <<"Suggested", " ", "Reply">>,
       <<"Reply", " ", "Content">>,
       <<"Content">>,
       <<"Email", " ", "Body">> >>

\* r'## <title>\s*\n' matches in line i: the title stands anywhere in the
\* line, only blanks follow it, and the line is ended by a line break
IsSectionHeading(content, i, title) ==
    /\ i < Len(content)
    /\ \E k \in 1..Len(content[i]) :
           LET pat == <<"##", " ">> \o title
               e   == k + Len(pat) - 1
           IN  /\ e <= Len(content[i])
               /\ SubSeq(content[i], k, e) = pat
               /\ AllWs(SubSeq(content[i], e + 1, Len(content[i])))

\* the first line the pattern of the title matches in, or 0
RECURSIVE SectionLine(_, _, _)
SectionLine(content, title, i) ==
    IF i > Len(content) THEN 0
    ELSE IF IsSectionHeading(content, i, title) THEN i
    ELSE SectionLine(content, title, i + 1)

\* (?:^##|^---|\Z): the line the group stops before
EndsSection(line) ==
    /\ line # <<>>
    /\ \/ line[1] = "##"
       \/ line[1] = "---"
       \/ Len(line) >= 2 /\ line[1] = "#" /\ line[2] \in {"#", "##"}

\* the lines i.. up to the line that ends the section, as one text
RECURSIVE SectionTokens(_, _)
SectionTokens(content, i) ==
    IF i > Len(content) \/ EndsSection(content[i]) THEN <<>>
    ELSE content[i] \o (IF i < Len(content) THEN <<"\n">> ELSE <<>>)
            \o SectionTokens(content, i + 1)

RECURSIVE SkipSpace(_, _)
SkipSpace(s, i) ==
    IF i <= Len(s) /\ IsSpace(s[i]) THEN SkipSpace(s, i + 1) ELSE i

\* re.sub(r'^\s*\*\s*', '', body, flags=re.MULTILINE), from token i on
RECURSIVE StripBullets(_, _)
StripBullets(s, i) ==
    IF i > Len(s) THEN <<>>
    ELSE LET star == SkipSpace(s, i)
         IN  IF /\ i = 1 \/ s[i - 1] = "\n"
                /\ star <= Len(s)
                /\ s[star] = "*"
             THEN StripBullets(s, SkipSpace(s, star + 1))
             ELSE <<s[i]>> \o StripBullets(s, i + 1)

\* the body the pattern of the title yields for its heading at line h:
\* \s*\n runs over the blank lines that follow the heading
SectionBody(content, h) ==
    LET g == NextTextLine(content, h + 1)
    IN  IF g = 0 THEN <<>>
        ELSE StripBullets(StripText(SectionTokens(content, g)), 1)

\* the loop of lines 350-361: the lines kept when no section is found
RECURSIVE BodyLines(_, _, _)
BodyLines(content, i, in_body) ==
    IF i > Len(content) THEN <<>>
    ELSE LET line == content[i]
         IN  IF Strip(line) = <<"---">> /\ ~in_body
             THEN BodyLines(content, i + 1, TRUE)
             ELSE IF /\ in_body
                     /\ ~(line # <<>> /\ line[1] = "---")
                     /\ ~(line # <<>> /\ line[1] \in {"#", "##"})
                  THEN <<line>> \o BodyLines(content, i + 1, in_body)
                  ELSE BodyLines(content, i + 1, in_body)

\* '\n'.join(lines)
RECURSIVE Join(_)
Join(lines) ==
    IF lines = <<>> THEN <<>>
    ELSE IF Len(lines) = 1 THEN lines[1]
    ELSE lines[1] \o <<"\n">> \o Join(Tail(lines))

\* Orchestrator._extract_email_body, lines 329-363
ExtractEmailBody(content) ==
    LET found == {p \in 1..Len(Patterns) : SectionLine(content, Patterns[p], 1) # 0}
    IN  IF found # {}
        THEN LET p == CHOOSE q \in found : \A r \in found : q <= r
             IN  SectionBody(content, SectionLine(content, Patterns[p], 1))
        ELSE StripText(Join(BodyLines(content, 1, FALSE)))

(***************************************************************************)
(* The texts the two extractions are applied to: with and without a        *)
(* header, with a key missing or empty in the header, with key lines in    *)
(* the body, with accepted and other headings, bullets and rules.          *)
(***************************************************************************)
ApprovalHeads ==
    { <<>>,
      << <<"---">>, <<"action:", " ", "email_send">>, <<"to:", " ", "bob@yourcompany.com">>,
         <<"subject:", " ", "Re:", " ", "Hello">>, <<"---">> >>,
      << <<"---">>, <<"action:", " ", "email_send">>,
         <<"subject:", " ", "Re:", " ", "Hello">>, <<"---">> >>,
      << <<"---">>, <<"action:", " ", "email_send">>, <<"subject:", " ", "Re:", " ", "Hello">>,
         <<"to:", " ">>, <<"---">> >>,
      << <<"---">>, <<"type:", " ", "approval_request">>, <<"---">> >> }

ApprovalNotes ==
    { <<>>,
      << <<"to:", " ", "eve@evil.org">> >>,
      << <<"#", " ", "Approval Required">>, <<>>, <<"action:", " ", "payment">> >>,
      << <<"Please", " ", "review">> >> }

ApprovalSections ==
    { <<>>,
      << <<"##", " ", "Suggested", " ", "Reply">>, <<>> >>,
      << <<"##", " ", "Content">>, <<"first", " ", "draft">>,
         <<"##", " ", "Suggested", " ", "Reply">> >>,
      << <<"##", " ", "Email", " ", "Body", " ">> >>,
      << <<"#", "##", " ", "Reply", " ", "Content">> >>,
      << <<"##", " ", "Content", "s", " ", "of", " ", "mail">> >>,
      << <<"##", " ", "Content">>, <<>>, <<"##", " ", "Next">> >> }

ApprovalBodies ==
    { <<>>,
      << <<"Hello", " ", "there">>, <<"#", " ", "Heading">>, <<"more">> >>,
      << <<"*", " ", "item", " ", "one">>, <<" ", "*", " ", "item", " ", "two">> >>,
      << <<"Thank", " ", "you">>, <<"---">>, <<"after", " ", "rule">>,
         <<"---", " ", "x">> >> }

ApprovalEnds == {<<>>, << <<>> >>}

ApprovalDocs ==
    {h \o n \o sec \o b \o e :
        h \in ApprovalHeads, n \in ApprovalNotes, sec \in ApprovalSections,
        b \in ApprovalBodies, e \in ApprovalEnds}

\* the defaults a caller passes to _extract_field
Defaults == {<<>>, <<"unknown">>}

(***************************************************************************)
(* Orchestrator.update_dashboard on the text of Dashboard.md.  The text is *)
(* content.split('\n'): every line but the last is followed by a line      *)
(* break, and a text that ends in a line break has <<>> for its last line.  *)
(***************************************************************************)
\* the largest number a dashboard row shows
MaxNumber == 12

\* \d+
IsDigits(t) == \E n \in 0..MaxNumber : t = ToString(n)

\* a substitution that puts the timestamp in front of what the line held
SubLastUpdatedKeepingRest(line, timestamp) ==
    LET ks == {k \in 1..(Len(line) - 1) : line[k] = "last_updated:" /\ line[k + 1] = " "}
    IN  IF ks = {} THEN line
        ELSE LET k == CHOOSE j \in ks : \A i \in ks : j <= i
             IN  SubSeq(line, 1, k - 1) \o <<"last_updated:", " ", timestamp, " ">>
                    \o SubSeq(line, k + 2, Len(line))

\* re.sub(r'last_updated: .*\n', f'last_updated: {timestamp}\n', ...) on a
\* line that a line break follows: from the first "last_updated: " to the end
SubLastUpdated(line, timestamp) ==
    LET ks == {k \in 1..(Len(line) - 1) : line[k] = "last_updated:" /\ line[k + 1] = " "}
    IN  IF ks = {} THEN line
        ELSE LET k == CHOOSE j \in ks : \A i \in ks : j <= i
             IN  SubSeq(line, 1, k - 1) \o <<"last_updated:", " ", timestamp>>

RowPrefix(label) == <<"|", " ", label, " ", "|", " ">>

\* re.sub(r'\| \*\*<label>\*\* \| \d+ \|', f'| **<label>** | {n} |', ...) on a line
RECURSIVE SubRow(_, _, _)
SubRow(line, label, n) ==
    IF Len(line) < 9 THEN line
    ELSE IF /\ SubSeq(line, 1, 6) = RowPrefix(label)
            /\ IsDigits(line[7])
            /\ line[8] = " "
            /\ line[9] = "|"
    THEN RowPrefix(label) \o <<ToString(n), " ", "|">>
            \o SubRow(SubSeq(line, 10, Len(line)), label, n)
    ELSE <<Head(line)>> \o SubRow(Tail(line), label, n)

\* '| **<label>** |' in content
HasRow(content, label) ==
    \E i \in 1..Len(content) : ContainsSeq(content[i], SubSeq(RowPrefix(label), 1, 5))

\* a sync that gives up, leaving the text alone, when a row is missing
UpdateDashboardTextGivingUp(content, c, timestamp) ==
    IF /\ HasRow(content, "**Pending Items**")
       /\ HasRow(content, "**Awaiting Approval**")
    THEN [i \in 1..Len(content) |->
             SubRow(SubRow(IF i < Len(content)
                           THEN SubLastUpdated(content[i], timestamp)
                           ELSE content[i],
                           "**Pending Items**", c.needs_action),
                    "**Awaiting Approval**", c.pending_approval)]
    ELSE content

\* the text update_dashboard writes back, lines 107-132
UpdateDashboardText(content, c, timestamp) ==
    LET stamped == [i \in 1..Len(content) |->
                        IF i < Len(content) THEN SubLastUpdated(content[i], timestamp)
                                            ELSE content[i]]
        pending == IF HasRow(stamped, "**Pending Items**")
                   THEN [i \in 1..Len(content) |->
                            SubRow(stamped[i], "**Pending Items**", c.needs_action)]
                   ELSE stamped
    IN  IF HasRow(pending, "**Awaiting Approval**")
        THEN [i \in 1..Len(content) |->
                 SubRow(pending[i], "**Awaiting Approval**", c.pending_approval)]
        ELSE pending

\* the dashboards the sync is applied to: with or without frontmatter, with
\* or without either row, with lines that only look like what the sync
\* rewrites, with or without a line break at the end
DashboardHeads ==
    { <<>>,
      << <<"---">>, <<"last_updated:", " ", "2026-01-01T00:00:00">>, <<"---">> >>,
      << <<"---">>, <<"status:", " ", "active">>, <<"---">> >> }

PendingRows ==
    { <<>>,
      << <<"|", " ", "**Pending Items**", " ", "|", " ", "5", " ", "|">> >>,
      << <<"|", " ", "**Pending Items**", " ", "|", " ", "n/a", " ", "|">> >> }

AwaitingRows ==
    { <<>>,
      << <<"|", " ", "**Awaiting Approval**", " ", "|", " ", "7", " ", "|">> >> }

OtherRows ==
    { <<>>,
      << <<"|", " ", "**Done**", " ", "|", " ", "12", " ", "|">> >> }

NoteLines ==
    { <<>>,
      << <<"Set", " ", "last_updated:", " ", "by", " ", "hand">> >>,
      << <<"The", " ", "last_updated:field", " ", "shows", " ", "5", " ", "items">> >> }

LastLines == { <<>>, << <<>> >>, << <<"last_updated:", " ", "never">> >> }

DashboardDocs ==
    { h \o << <<"#", " ", "Dashboard">> >> \o n \o p \o a \o o \o l :
        h \in DashboardHeads, n \in NoteLines, p \in PendingRows, a \in AwaitingRows,
        o \in OtherRows, l \in LastLines }

\* the numbers of files count_items may find
MaxCount == 2

(***************************************************************************)
(* A file of the vault is held as <<kind, key>>: the writer that produced  *)
(* it and what it was produced from; a plan or a request of the plan       *)
(* creator is <<kind, key, c>>, c the clock reading it was written at.     *)
(* Text gives its content.  The tables below hold, for every such file,    *)
(* what the engine's parsers make of it.                                   *)
(***************************************************************************)
Text(f) ==
    CASE f[1] = "item" -> ItemText(Message(f[2]))
      [] f[1] = "plan" ->
            LET email_data == ParseEmailFrontmatter(ItemText(Message(f[2])))
            IN  PlanText(email_data, CheckApprovalNeeded(email_data), f[3])
      [] f[1] = "approval" ->
            ApprovalText(ParseEmailFrontmatter(ItemText(Message(f[2]))), f[3])
      [] f[1] = "external" -> ExternalDoc(f[2])

\* a function held as a table, so that it is computed once
Tabulated(t) == t @@ <<>>

Files ==
    ({"item"} \X PlanKeys) \cup ({"plan", "approval"} \X PlanKeys \X (0..MaxClock))
        \cup ({"external"} \X ExternalDocs)

\* process_approved, lines 243-250: the fields it extracts from a file
Extracted ==
    Tabulated([f \in Files |->
        [action_type |-> ExtractField(Text(f), "action:"),
         to_email    |-> ExtractField(Text(f), "to:"),
         subject     |-> ExtractField(Text(f), "subject:")]])

\* process_email, lines 41-54: what it derives from an item
Intake ==
    Tabulated([k \in PlanKeys |->
        LET email_data == ParseEmailFrontmatter(Text(<<"item", k>>))
        IN  [parsed         |-> DOMAIN email_data # {},
             needs_approval |-> CheckApprovalNeeded(email_data),
             plan_name      |-> PlanName(email_data),
             approval_name  |-> ApprovalName(email_data)]])

(***************************************************************************)
(* The state.                                                              *)
(***************************************************************************)
Dirs == {"Needs_Action", "Plans", "Pending_Approval", "Approved", "Rejected", "Done"}

VARIABLES
    platform,         \* platform.system(): "Windows" or "Posix"
    vaultRelative,    \* whether vault_path was given as a relative path
    cwd,              \* the working directory of the orchestrator process
    original_cwd,     \* trigger_qwen's saved working directory
    files,            \* files[d]: the .md files of stage directory d, name -> file
    dashboard,        \* Dashboard.md: "absent", "initial" or "synced"
    log,              \* Logs/<today>.jsonl
    processed_files,  \* Orchestrator.processed_files
    pc,               \* where Orchestrator.run stands
    pending,          \* the batch handed to trigger_qwen, kept until it succeeds
    outcome,          \* how the last agent invocation ended
    todo,             \* process_approved: the listed items the loop has not reached
    item,             \* process_approved: the item being handled
    result,           \* process_approved: what became of the item's dispatch
    executed,         \* names the executor was invoked for
    invoked,          \* names it was invoked for since they last came into Approved
    processed_ids,    \* GmailWatcher.processed_ids
    created,          \* names ever written into Pending_Approval
    moved,            \* names the human ever moved into Approved
    handed,           \* names of the batches an agent process was started with
    clock,            \* seconds since the start of the run
    message,          \* the message create_action_file is applied to
    action_file,      \* the item create_action_file wrote for it
    planned,          \* what process_email made of that item
    dirs,             \* the directories of the vault that exist
    document,         \* the text a parser or the dashboard sync is applied to
    extracted,        \* what _extract_field and _extract_email_body made of it
    counts,           \* count_items: what update_dashboard writes into the text
    syncs,            \* how often update_dashboard has rewritten the text
    wpc,              \* BaseWatcher.run: where the Gmail watcher's loop stands
    messages,         \* check_for_updates: the ids the API listed
    new_messages,     \* run: the items of the poll the loop has not reached
    cache_file,       \* the ids in .gmail_cache.pkl
    failed,           \* ids whose last create_action_file raised
    writes,           \* how often the action file of each id was written
    lpc,              \* LinkedInWatcher.run: where the loop stands
    processed_notifications,  \* LinkedInWatcher.processed_notifications
    notifications     \* run: the notifications of the poll the loop has not reached

vars == <<platform, vaultRelative, cwd, original_cwd, files, dashboard, log,
          processed_files, pc, pending, outcome, todo, item, result, executed, invoked,
          processed_ids, created, moved, handed, clock, message, action_file, planned,
          dirs, document, extracted, counts, syncs,
          wpc, messages, new_messages, cache_file, failed, writes,
          lpc, processed_notifications, notifications>>

(***************************************************************************)
(* Directories.                                                            *)
(***************************************************************************)
NoFiles == [n \in {} |-> <<>>]

Put(fs, d, n, f) == [fs EXCEPT ![d] = (n :> f) @@ fs[d]]

Remove(fs, d, n) == [fs EXCEPT ![d] = [m \in (DOMAIN fs[d]) \ {n} |-> fs[d][m]]]

\* os.rename(src/n, dst/n) on a file that exists: the destination is replaced
Rename(fs, src, dst, n) == Put(Remove(fs, src, n), dst, n, fs[src][n])

\* The stage paths are built from vault_path (orchestrator.py lines 45-60); a
\* relative vault_path no longer names the vault once the process has changed
\* its working directory into the vault.
Resolves == ~(vaultRelative /\ cwd = "vault")

\* get_pending_items without the test against processed_files
GetPendingItemsUnfiltered ==
    IF ~Resolves THEN {} ELSE DOMAIN files["Needs_Action"]

\* Orchestrator.get_pending_items (the order of the list is not modelled)
GetPendingItems ==
    IF ~Resolves THEN {}
    ELSE {n \in DOMAIN files["Needs_Action"] : n \notin processed_files}

\* Orchestrator.get_approved_items
GetApprovedItems ==
    IF ~Resolves THEN {} ELSE DOMAIN files["Approved"]

(***************************************************************************)
(* The executor and the agent, as the engine sees them.                    *)
(***************************************************************************)
\* how a run of send_email.py can end
ExecOutcomes ==
    [kind : {"exit"}, rc : {0, 1}, marker : BOOLEAN]
        \cup [kind : {"timeout", "exception"}, rc : {1}, marker : {FALSE}]

NoExec == [kind |-> "none", rc |-> 1, marker |-> FALSE]

\* _send_email_via_script judging by the exit code alone
SendEmailViaScriptExitCodeOnly(o) ==
    IF o.kind = "exit" /\ o.rc = 0 THEN "sent" ELSE "error"

\* Orchestrator._send_email_via_script: the status it returns
SendEmailViaScript(o) ==
    IF o.kind = "exit" /\ o.rc = 0 /\ o.marker THEN "sent" ELSE "error"

\* how trigger_qwen's subprocess.run can end.  Off Windows the command string
\* is run with shell=False, so the whole string is taken for the program name.
AgentOutcomes ==
    IF platform = "Windows" THEN {"ok", "nonzero", "timeout", "exception"}
    ELSE {"missing"}

\* the outcomes after which trigger_qwen reaches os.chdir(original_cwd)
RestoresCwd(o) == o \in {"ok", "nonzero"}

\* trigger_qwen's return value
TriggerQwen(o) == o = "ok"

\* Orchestrator.log_action: the record appended
LogEntry(action_type, details, status) ==
    [timestamp |-> Now, action_type |-> action_type, actor |-> "orchestrator",
     details |-> details, status |-> status]

\* a log_action that opens the day's file for writing, not for appending
LogActionRewriting(l, action_type, details, status) ==
    <<LogEntry(action_type, details, status)>>

\* log_action, lines 409-411: open(log_file, 'a') and one line written
LogAction(l, action_type, details, status) ==
    Append(l, LogEntry(action_type, details, status))

(***************************************************************************)
(* Init: the state after Orchestrator.__init__ on a vault whose            *)
(* directories are empty.                                                  *)
(***************************************************************************)
NoResult == [status |-> "none", exec |-> NoExec]

\* Orchestrator.__init__, lines 62-65: the folders it makes sure of
Folders ==
    {"Inbox", "Needs_Action", "Done", "Pending_Approval", "Approved", "Plans",
     "Accounting", "Briefings", "Logs"}

\* no extraction made, nothing counted
NotExtracted ==
    [called |-> FALSE, default |-> <<>>, action_type |-> <<>>, to_email |-> <<>>,
     subject |-> <<>>, body |-> <<>>]

NoCounts == [needs_action |-> 0, pending_approval |-> 0]

\* no message, no call of process_email
NoMessage == [id |-> <<>>, hdr |-> <<>>, body |-> <<>>, attachments |-> <<>>]

NotPlanned ==
    [called |-> FALSE, email_data |-> <<>>, needs_approval |-> FALSE,
     plan_path |-> <<>>, plan |-> <<>>, approval_path |-> <<>>, approval |-> <<>>]

\* the orchestrator, the watcher and the vault after construction
InitOrchestrator ==
    /\ platform \in {"Windows", "Posix"}
    /\ vaultRelative \in BOOLEAN
    /\ cwd = "orig"
    /\ original_cwd = "orig"
    /\ files = [d \in Dirs |-> NoFiles]
    /\ dashboard \in {"absent", "initial"}
    /\ log = <<>>
    /\ processed_files = {}
    /\ pc = "needs_action"
    /\ pending = {}
    /\ outcome = "none"
    /\ todo = {}
    /\ item = <<>>
    /\ result = NoResult
    /\ executed = {}
    /\ invoked = {}
    /\ processed_ids = {}
    /\ created = {}
    /\ moved = {}
    /\ handed = {}

\* no parser at work, no dashboard text followed
\* the ids of the mailbox
MailIds == {Message(k).id : k \in MessageKeys}

\* the two watchers after construction, no cache file in the vault
InitWatchers ==
    /\ wpc = "check"
    /\ messages = <<>>
    /\ new_messages = <<>>
    /\ cache_file = {}
    /\ failed = {}
    /\ writes = [id \in MailIds |-> 0]
    /\ lpc = "check"
    /\ processed_notifications = {}
    /\ notifications = <<>>

InitUnits ==
    /\ message = NoMessage
    /\ action_file = <<>>
    /\ planned = NotPlanned
    /\ document = <<>>
    /\ extracted = NotExtracted
    /\ counts = NoCounts
    /\ syncs = 0
    /\ InitWatchers

Init ==
    /\ InitOrchestrator
    /\ dirs = Folders
    /\ clock = 0
    /\ InitUnits

(***************************************************************************)
(* Orchestrator.run: one cycle is process_needs_action, process_approved,  *)
(* update_dashboard, then time.sleep.                                      *)
(***************************************************************************)
envVars == <<processed_ids, created, moved>>

cfgVars == <<platform, vaultRelative>>

creatorVars == <<clock, message, action_file, planned>>

watcherVars == <<wpc, messages, new_messages, cache_file, failed, writes,
                 lpc, processed_notifications, notifications>>

unitVars == <<dirs, document, extracted, counts, syncs, watcherVars>>

\* process_needs_action up to the call of subprocess.run in trigger_qwen
ScanNeedsAction ==
    /\ pc = "needs_action"
    /\ IF GetPendingItems = {}
       THEN /\ pc' = "approved"
            /\ UNCHANGED <<pending, cwd, original_cwd, handed>>
       ELSE /\ pending' = GetPendingItems
            /\ original_cwd' = cwd
            /\ cwd' = "vault"
            /\ handed' = IF platform = "Windows" THEN handed \cup GetPendingItems
                         ELSE handed
            /\ pc' = "agent"
    /\ UNCHANGED <<files, dashboard, log, processed_files, outcome, todo, item,
                   result, executed, invoked>>
    /\ UNCHANGED <<unitVars, creatorVars, cfgVars, envVars>>

\* get_pending_items, line 82: x.stat() raises for a listed file that a
\* reasoning agent still at work on an earlier batch has moved to Done
ScanRaises(n) ==
    /\ pc = "needs_action"
    /\ n \in GetPendingItems
    /\ n \in handed
    /\ Len(log) < MaxLog
    /\ files' = Rename(files, "Needs_Action", "Done", n)
    /\ pc' = "except"
    /\ UNCHANGED <<cwd, original_cwd, dashboard, log, processed_files, pending,
                   outcome, todo, item, result, executed, invoked, handed>>
    /\ UNCHANGED <<unitVars, creatorVars, cfgVars, envVars>>

\* process_needs_action, lines 222-225: processed_files after trigger_qwen
\* has returned for outcome o
MarkProcessed(o) ==
    IF TriggerQwen(o) THEN processed_files \cup pending ELSE processed_files

\* the rest of trigger_qwen and of process_needs_action
AgentReturns ==
    /\ pc = "agent"
    /\ \E o \in AgentOutcomes :
        /\ outcome' = IF TriggerQwen(o) THEN "ok" ELSE "failed"
        /\ cwd' = IF RestoresCwd(o) THEN original_cwd ELSE cwd
        /\ processed_files' = MarkProcessed(o)
        /\ pending' = IF TriggerQwen(o) THEN {} ELSE pending
    /\ pc' = "approved"
    /\ UNCHANGED <<original_cwd, files, dashboard, log, todo, item, result, executed, invoked,
                   handed>>
    /\ UNCHANGED <<unitVars, creatorVars, cfgVars, envVars>>

\* process_approved: the listing
ListApproved ==
    /\ pc = "approved"
    /\ todo' = GetApprovedItems
    /\ pc' = IF GetApprovedItems = {} THEN "dashboard" ELSE "dispatch"
    /\ UNCHANGED <<cwd, original_cwd, files, dashboard, log, processed_files, pending,
                   outcome, item, result, executed, invoked, handed>>
    /\ UNCHANGED <<unitVars, creatorVars, cfgVars, envVars>>

\* where the loop of process_approved goes after item n
AfterItem(n) == IF todo \ {n} = {} THEN "dashboard" ELSE "dispatch"

\* a dispatch that takes any tag at all for a send
IsEmailSendAnyTag(action_type) == TRUE

\* action_type == 'email_send'
IsEmailSend(action_type) == action_type = <<"email_send">>

\* process_approved, one item, lines 237-271: read, extract, dispatch, log
DispatchApproved(n) ==
    /\ pc = "dispatch"
    /\ n \in todo
    /\ Len(log) < MaxLog
    /\ IF n \notin DOMAIN files["Approved"]
       THEN \* item.read_text() raises: the loop is left
            /\ pc' = "except"
            /\ UNCHANGED <<todo, item, result, executed, invoked, log>>
       ELSE LET x == Extracted[files["Approved"][n]]
            IN  IF IsEmailSend(x.action_type)
                THEN IF x.to_email = <<>> \/ x.subject = <<>>
                     THEN \* continue
                          /\ todo' = todo \ {n}
                          /\ pc' = AfterItem(n)
                          /\ UNCHANGED <<item, result, executed, invoked, log>>
                     ELSE \E o \in ExecOutcomes :
                          /\ executed' = executed \cup {n}
                          /\ invoked' = invoked \cup {n}
                          /\ result' = [status |-> SendEmailViaScript(o), exec |-> o]
                          /\ log' = IF SendEmailViaScript(o) = "sent"
                                    THEN LogAction(log, "email_sent",
                                                   <<x.to_email, x.subject>>, "success")
                                    ELSE log
                          /\ item' = n
                          /\ pc' = "move"
                          /\ UNCHANGED todo
                ELSE /\ result' = [status |-> "unknown", exec |-> NoExec]
                     /\ item' = n
                     /\ pc' = "move"
                     /\ UNCHANGED <<todo, executed, invoked, log>>
    /\ UNCHANGED <<cwd, original_cwd, files, dashboard, processed_files, pending,
                   outcome, handed>>
    /\ UNCHANGED <<unitVars, creatorVars, cfgVars, envVars>>

\* whether item.rename(dest) succeeds: the source must still be there, and on
\* Windows the destination must not exist
RenameSucceeds(n) ==
    /\ n \in DOMAIN files["Approved"]
    /\ ~(platform = "Windows" /\ n \in DOMAIN files["Done"])

\* process_approved, one item, lines 273-280: the move to Done
MoveToDone ==
    /\ pc = "move"
    /\ IF RenameSucceeds(item)
       THEN /\ files' = Rename(files, "Approved", "Done", item)
            /\ processed_files' = processed_files \cup {item}
       ELSE UNCHANGED <<files, processed_files>>
    /\ todo' = todo \ {item}
    /\ pc' = AfterItem(item)
    /\ item' = <<>>
    /\ result' = NoResult
    /\ UNCHANGED <<cwd, original_cwd, dashboard, log, pending, outcome, executed, invoked,
                   handed>>
    /\ UNCHANGED <<unitVars, creatorVars, cfgVars, envVars>>

\* update_dashboard writing the document whether it exists or not
UpdateDashboardCreating ==
    /\ pc = "dashboard"
    /\ dashboard' = IF Resolves THEN "synced" ELSE dashboard
    /\ pc' = "sleep"
    /\ UNCHANGED <<cwd, original_cwd, files, log, processed_files, pending, outcome,
                   todo, item, result, executed, invoked, handed>>
    /\ UNCHANGED <<unitVars, creatorVars, cfgVars, envVars>>

\* update_dashboard: rewrites the document when it exists
UpdateDashboard ==
    /\ pc = "dashboard"
    /\ dashboard' = IF Resolves /\ dashboard # "absent" THEN "synced" ELSE dashboard
    /\ pc' = "sleep"
    /\ UNCHANGED <<cwd, original_cwd, files, log, processed_files, pending, outcome,
                   todo, item, result, executed, invoked, handed>>
    /\ UNCHANGED <<unitVars, creatorVars, cfgVars, envVars>>

\* update_dashboard: read_text or write_text raises (the document is read and
\* written in the locale's encoding, and an agent process told to update it
\* may hold it open)
DashboardRaises ==
    /\ pc = "dashboard"
    /\ Resolves /\ dashboard # "absent"
    /\ Len(log) < MaxLog
    /\ pc' = "except"
    /\ UNCHANGED <<cwd, original_cwd, files, dashboard, log, processed_files, pending,
                   outcome, todo, item, result, executed, invoked, handed>>
    /\ UNCHANGED <<unitVars, creatorVars, cfgVars, envVars>>

\* an except clause that swallows the exception without an entry in the log
HandleExceptionUnlogged ==
    /\ pc = "except"
    /\ pc' = "sleep"
    /\ todo' = {}
    /\ UNCHANGED <<cwd, original_cwd, files, dashboard, log, processed_files, pending,
                   outcome, item, result, executed, invoked, handed>>
    /\ UNCHANGED <<unitVars, creatorVars, platform, vaultRelative, processed_ids, created, moved>>

\* run, lines 432-434: the except clause.  log_action opens the log file under
\* the logs path and is not itself guarded.
HandleException ==
    /\ pc = "except"
    /\ IF Resolves
       THEN /\ log' = LogAction(log, "error", <<"exception">>, "failed")
            /\ pc' = "sleep"
       ELSE /\ pc' = "crashed"
            /\ UNCHANGED log
    /\ todo' = {}
    /\ UNCHANGED <<cwd, original_cwd, files, dashboard, processed_files, pending,
                   outcome, item, result, executed, invoked, handed>>
    /\ UNCHANGED <<unitVars, creatorVars, cfgVars, envVars>>

\* run, lines 436-438: time.sleep(check_interval), then the next cycle
Sleep ==
    /\ pc = "sleep"
    /\ pc' = "needs_action"
    /\ UNCHANGED <<cwd, original_cwd, files, dashboard, log, processed_files, pending,
                   outcome, todo, item, result, executed, invoked, handed>>
    /\ UNCHANGED <<unitVars, creatorVars, cfgVars, envVars>>

(***************************************************************************)
(* PlanCreator.process_email, run by plan_creator.py's main for every      *)
(* EMAIL_*.md of Needs_Action.                                             *)
(***************************************************************************)
orchVars == <<cwd, original_cwd, dashboard, log, processed_files, pc, pending,
              outcome, todo, item, result, executed, invoked, handed>>

\* process_email writing the request of a flagged item straight into Approved
ProcessEmailSkippingPending(fs, f, c) ==
    LET r        == Intake[f[2]]
        withPlan == Put(fs, "Plans", r.plan_name, <<"plan", f[2], c>>)
    IN  IF ~r.parsed THEN fs
        ELSE IF r.needs_approval
        THEN Put(withPlan, "Approved", r.approval_name, <<"approval", f[2], c>>)
        ELSE withPlan

\* process_email archiving the item it has handled
ProcessEmailArchivingItem(fs, f, c) ==
    LET r        == Intake[f[2]]
        n        == ItemName(Message(f[2]).id)
        withPlan == Put(fs, "Plans", r.plan_name, <<"plan", f[2], c>>)
    IN  IF ~r.parsed THEN fs
        ELSE IF r.needs_approval
        THEN Put(withPlan, "Pending_Approval", r.approval_name, <<"approval", f[2], c>>)
        ELSE Rename(withPlan, "Needs_Action", "Done", n)

\* the vault after process_email has handled item file f
ProcessEmail(fs, f, c) ==
    LET r        == Intake[f[2]]
        withPlan == Put(fs, "Plans", r.plan_name, <<"plan", f[2], c>>)
    IN  IF ~r.parsed THEN fs
        ELSE IF r.needs_approval
        THEN Put(withPlan, "Pending_Approval", r.approval_name, <<"approval", f[2], c>>)
        ELSE withPlan

(***************************************************************************)
(* The other actors.  The engine looks at a directory at four points of a  *)
(* cycle: the scan of Needs_Action, the listing of Approved, the read of   *)
(* an approved item and its rename.  Files that appear are placed while    *)
(* the engine sleeps; files that disappear under the engine do so between  *)
(* two of those points.                                                    *)
(***************************************************************************)
PlanCreatorProcess(n) ==
    /\ pc = "sleep"
    /\ n \in DOMAIN files["Needs_Action"]
    /\ Head(n) = "EMAIL_"
    /\ files' = ProcessEmail(files, files["Needs_Action"][n], clock)
    /\ files' # files
    /\ created' = created \cup DOMAIN files'["Pending_Approval"]
    /\ UNCHANGED <<processed_ids, moved>>
    /\ UNCHANGED <<unitVars, creatorVars, cfgVars, orchVars>>

\* GmailWatcher.create_action_file for a message not yet in processed_ids
WatcherCreates(k) ==
    /\ pc = "sleep"
    /\ Message(k).id \notin processed_ids
    /\ files' = Put(files, "Needs_Action", ItemName(Message(k).id), <<"item", k>>)
    /\ processed_ids' = processed_ids \cup {Message(k).id}
    /\ UNCHANGED <<created, moved>>
    /\ UNCHANGED <<unitVars, creatorVars, cfgVars, orchVars>>

\* an approval request written into Pending_Approval from outside the engine
\* (the reasoning agent, following step 4 of its instruction, or the human)
ExternalWrites(d) ==
    /\ pc = "sleep"
    /\ ExternalName \notin created
    /\ files' = Put(files, "Pending_Approval", ExternalName, <<"external", d>>)
    /\ created' = created \cup {ExternalName}
    /\ UNCHANGED <<processed_ids, moved>>
    /\ UNCHANGED <<unitVars, creatorVars, cfgVars, orchVars>>

\* an agent process moves an item it was handed to Done (step 6 of the instruction)
AgentMovesToDone(n) ==
    /\ pc = "agent"
    /\ n \in handed
    /\ n \in DOMAIN files["Needs_Action"]
    /\ files' = Rename(files, "Needs_Action", "Done", n)
    /\ UNCHANGED <<unitVars, creatorVars, cfgVars, envVars, orchVars>>

\* the human moves a request from Pending_Approval to Approved
HumanApproves(n) ==
    /\ pc = "sleep"
    /\ n \in DOMAIN files["Pending_Approval"]
    /\ files' = Rename(files, "Pending_Approval", "Approved", n)
    /\ moved' = moved \cup {n}
    /\ invoked' = invoked \ {n}
    /\ UNCHANGED <<processed_ids, created>>
    /\ UNCHANGED <<cwd, original_cwd, dashboard, log, processed_files, pc, pending,
                   outcome, todo, item, result, executed, handed>>
    /\ UNCHANGED <<unitVars, creatorVars, cfgVars>>

\* the human takes an approval back while the engine is working on the listing
HumanWithdraws(n) ==
    /\ pc \in {"dispatch", "move"}
    /\ n \in DOMAIN files["Approved"]
    /\ n \notin DOMAIN files["Pending_Approval"]
    /\ files' = Rename(files, "Approved", "Pending_Approval", n)
    /\ UNCHANGED <<unitVars, creatorVars, cfgVars, envVars, orchVars>>

\* a step of the repository's own code: of Orchestrator.run or of
\* plan_creator.py (a raising scan is the step of the agent that moved the file)
EngineStep ==
    \/ ScanNeedsAction
    \/ AgentReturns
    \/ ListApproved
    \/ \E n \in todo : DispatchApproved(n)
    \/ MoveToDone
    \/ UpdateDashboard
    \/ DashboardRaises
    \/ HandleException
    \/ Sleep
    \/ \E n \in DOMAIN files["Needs_Action"] : PlanCreatorProcess(n)

(***************************************************************************)
(* Three runs of the engine, by who else works on the vault.               *)
(***************************************************************************)
\* the rest of a cycle after its two processing steps
CycleEnd ==
    \/ UpdateDashboard
    \/ DashboardRaises
    \/ HandleException
    \/ Sleep

\* The watcher feeds Needs_Action and the reasoning agent works on what it is
\* handed; nothing is ever approved.
NextIntake ==
    \/ ScanNeedsAction
    \/ \E n \in DOMAIN files["Needs_Action"] : ScanRaises(n)
    \/ AgentReturns
    \/ ListApproved
    \/ CycleEnd
    \/ \E k \in MessageKeys : WatcherCreates(k)
    \/ \E n \in DOMAIN files["Needs_Action"] : AgentMovesToDone(n)

SpecIntake == Init /\ [][NextIntake]_vars

\* trigger_qwen returning True
AgentSucceeds == AgentReturns /\ outcome' = "ok"

\* the polling loop goes on (run, lines 421-438: every step of a cycle is
\* taken and the sleep ends), and the agent does not fail for ever
SpecIntakeFair ==
    /\ SpecIntake
    /\ WF_vars(ScanNeedsAction)
    /\ WF_vars(AgentReturns)
    /\ WF_vars(ListApproved)
    /\ WF_vars(CycleEnd)
    /\ SF_vars(AgentSucceeds)

\* The messages go through plan_creator.py, the human and the executor.
NextApproval ==
    \/ ScanNeedsAction
    \/ \E n \in DOMAIN files["Needs_Action"] : ScanRaises(n)
    \/ AgentReturns
    \/ ListApproved
    \/ \E n \in todo : DispatchApproved(n)
    \/ MoveToDone
    \/ CycleEnd
    \/ \E k \in MessageKeys : WatcherCreates(k)
    \/ \E n \in DOMAIN files["Needs_Action"] : PlanCreatorProcess(n)
    \/ \E n \in DOMAIN files["Pending_Approval"] : HumanApproves(n)
    \/ \E n \in DOMAIN files["Approved"] : HumanWithdraws(n)

SpecApproval == Init /\ [][NextApproval]_vars

\* Requests written into Pending_Approval from outside are approved.
NextExternal ==
    \/ ScanNeedsAction
    \/ ListApproved
    \/ \E n \in todo : DispatchApproved(n)
    \/ MoveToDone
    \/ CycleEnd
    \/ \E d \in ExternalDocs : ExternalWrites(d)
    \/ \E n \in DOMAIN files["Pending_Approval"] : HumanApproves(n)
    \/ \E n \in DOMAIN files["Approved"] : HumanWithdraws(n)

SpecExternal == Init /\ [][NextExternal]_vars

\* a second passes while the orchestrator sleeps
Tick ==
    /\ pc = "sleep"
    /\ clock < MaxClock
    /\ clock' = clock + 1
    /\ UNCHANGED <<message, action_file, planned>>
    /\ UNCHANGED <<unitVars, cfgVars, envVars, orchVars, files>>

\* The watcher feeds Needs_Action and plan_creator.py is run over it, time
\* and again; nothing is approved.
NextPlans ==
    \/ ScanNeedsAction
    \/ AgentReturns
    \/ ListApproved
    \/ CycleEnd
    \/ \E k \in PlanKeys : WatcherCreates(k)
    \/ \E n \in DOMAIN files["Needs_Action"] : PlanCreatorProcess(n)
    \/ Tick

SpecPlans == Init /\ [][NextPlans]_vars

(***************************************************************************)
(* The watcher and the plan creator on one message: create_action_file     *)
(* writes the item, process_email reads it back and writes the plan and,   *)
(* for a flagged item, the request.  The orchestrator does not run.        *)
(***************************************************************************)
\* process_email handing _create_plan False for every item
ProcessEmailOfPlanningUnflagged(content, c) ==
    LET email_data     == ParseEmailFrontmatter(content)
        needs_approval == CheckApprovalNeeded(email_data)
    IN  [called         |-> TRUE,
         email_data     |-> email_data,
         needs_approval |-> needs_approval,
         plan_path      |-> PlanName(email_data),
         plan           |-> PlanText(email_data, FALSE, c),
         approval_path  |-> IF needs_approval THEN ApprovalName(email_data)
                                              ELSE <<>>,
         approval       |-> IF needs_approval THEN ApprovalText(email_data, c)
                                              ELSE <<>>]

\* process_email writing a request for every item, flagged or not
ProcessEmailOfAlwaysRequesting(content, c) ==
    LET email_data     == ParseEmailFrontmatter(content)
        needs_approval == CheckApprovalNeeded(email_data)
    IN  [called         |-> TRUE,
         email_data     |-> email_data,
         needs_approval |-> needs_approval,
         plan_path      |-> PlanName(email_data),
         plan           |-> PlanText(email_data, needs_approval, c),
         approval_path  |-> ApprovalName(email_data),
         approval       |-> ApprovalText(email_data, c)]

\* what process_email writes and returns for an item of text content when
\* the clock reads c; a path not written is <<>>
ProcessEmailOf(content, c) ==
    LET email_data     == ParseEmailFrontmatter(content)
        needs_approval == CheckApprovalNeeded(email_data)
    IN  IF DOMAIN email_data = {} THEN [NotPlanned EXCEPT !.called = TRUE]
        ELSE [called         |-> TRUE,
              email_data     |-> email_data,
              needs_approval |-> needs_approval,
              plan_path      |-> PlanName(email_data),
              plan           |-> PlanText(email_data, needs_approval, c),
              approval_path  |-> IF needs_approval THEN ApprovalName(email_data)
                                                   ELSE <<>>,
              approval       |-> IF needs_approval THEN ApprovalText(email_data, c)
                                                   ELSE <<>>]

\* one message of the mailbox, at any reading of the clock
InitCreator ==
    /\ InitOrchestrator
    /\ platform = "Posix"
    /\ ~vaultRelative
    /\ dashboard = "absent"
    /\ dirs = Folders
    /\ clock \in 0..MaxClock
    /\ message \in Mailbox
    /\ action_file = <<>>
    /\ planned = NotPlanned
    /\ document = <<>>
    /\ extracted = NotExtracted
    /\ counts = NoCounts
    /\ syncs = 0
    /\ InitWatchers

CreateActionFile ==
    /\ message # NoMessage
    /\ action_file = <<>>
    /\ action_file' = ItemText(message)
    /\ UNCHANGED <<clock, message, planned>>
    /\ UNCHANGED <<unitVars, cfgVars, envVars, orchVars, files>>

ProcessEmailCall ==
    /\ action_file # <<>>
    /\ ~planned.called
    /\ planned' = ProcessEmailOf(action_file, clock)
    /\ UNCHANGED <<clock, message, action_file>>
    /\ UNCHANGED <<unitVars, cfgVars, envVars, orchVars, files>>

\* process_approved, lines 240-253, on the request process_email wrote, moved
\* to Approved as it is
ExtractApproved ==
    /\ planned.called
    /\ planned.needs_approval
    /\ ~extracted.called
    /\ extracted' =
           [called      |-> TRUE,
            default     |-> <<>>,
            action_type |-> ExtractField(planned.approval, "action:"),
            to_email    |-> ExtractField(planned.approval, "to:"),
            subject     |-> ExtractField(planned.approval, "subject:"),
            body        |-> ExtractEmailBody(planned.approval)]
    /\ UNCHANGED <<dirs, document, counts, syncs>>
    /\ UNCHANGED watcherVars
    /\ UNCHANGED <<creatorVars, cfgVars, envVars, orchVars, files>>

NextCreator ==
    \/ CreateActionFile
    \/ ProcessEmailCall
    \/ ExtractApproved

SpecCreator == InitCreator /\ [][NextCreator]_vars

(***************************************************************************)
(* Orchestrator.__init__ on a vault in which any of the directories may be *)
(* missing.                                                                *)
(***************************************************************************)
\* the directories a vault can hold before the engine is constructed
VaultDirs == Folders \cup {"Rejected"}

InitConstruction ==
    /\ platform = "Posix"
    /\ vaultRelative = FALSE
    /\ cwd = "orig"
    /\ original_cwd = "orig"
    /\ files = [d \in Dirs |-> NoFiles]
    /\ dashboard = "absent"
    /\ log = <<>>
    /\ processed_files = {}
    /\ pc = "new"
    /\ pending = {}
    /\ outcome = "none"
    /\ todo = {}
    /\ item = <<>>
    /\ result = NoResult
    /\ executed = {}
    /\ invoked = {}
    /\ processed_ids = {}
    /\ created = {}
    /\ moved = {}
    /\ handed = {}
    /\ dirs \in SUBSET VaultDirs
    /\ clock = 0
    /\ InitUnits

\* lines 62-66: folder.mkdir(parents=True, exist_ok=True) for each folder
Construct ==
    /\ pc = "new"
    /\ dirs' = dirs \cup Folders
    /\ pc' = "needs_action"
    /\ UNCHANGED <<cwd, original_cwd, files, dashboard, log, processed_files, pending,
                   outcome, todo, item, result, executed, invoked, handed>>
    /\ UNCHANGED <<document, extracted, counts, syncs>>
    /\ UNCHANGED watcherVars
    /\ UNCHANGED <<creatorVars, cfgVars, envVars>>

NextConstruction == Construct

SpecConstruction == InitConstruction /\ [][NextConstruction]_vars

(***************************************************************************)
(* The two extractions applied to one text.                                *)
(***************************************************************************)
\* process_approved's reading of one approved text, lines 240-253: the three
\* header fields and the body
InitDocument ==
    /\ InitOrchestrator
    /\ platform = "Posix"
    /\ ~vaultRelative
    /\ dashboard = "initial"
    /\ dirs = Folders
    /\ clock = 0
    /\ message = NoMessage
    /\ action_file = <<>>
    /\ planned = NotPlanned
    /\ document \in ApprovalDocs
    /\ extracted = NotExtracted
    /\ counts = NoCounts
    /\ syncs = 0
    /\ InitWatchers

ExtractCall ==
    /\ ~extracted.called
    /\ \E default \in Defaults :
           extracted' =
               [called      |-> TRUE,
                default     |-> default,
                action_type |-> ExtractFieldFrom(document, "action:", default, 1),
                to_email    |-> ExtractFieldFrom(document, "to:", default, 1),
                subject     |-> ExtractFieldFrom(document, "subject:", default, 1),
                body        |-> ExtractEmailBody(document)]
    /\ UNCHANGED <<dirs, document, counts, syncs>>
    /\ UNCHANGED watcherVars
    /\ UNCHANGED <<creatorVars, cfgVars, envVars, orchVars, files>>

NextDocument == ExtractCall

SpecDocument == InitDocument /\ [][NextDocument]_vars

(***************************************************************************)
(* update_dashboard on one dashboard text, cycle after cycle, while the    *)
(* stage directories and the clock stand still.                            *)
(***************************************************************************)
\* the cycles followed
MaxSyncs == 2

\* a vault with i items in Needs_Action and j requests in Pending_Approval,
\* and a file in Needs_Action that is not a .md file
Stocked(i, j) ==
    [d \in Dirs |->
        IF d = "Needs_Action"
        THEN [n \in {<<"EMAIL_", ToString(k), ".md">> : k \in 1..i}
                        \cup {<<"notes", ".txt">>} |-> <<"item", "Msg1">>]
        ELSE IF d = "Pending_Approval"
        THEN [n \in {<<"APPROVAL_", ToString(k), ".md">> : k \in 1..j} |->
                 <<"external", "complete">>]
        ELSE NoFiles]

\* a count_items that leaves out the items already handed to the agent
CountItemsNotProcessed(fs) ==
    [needs_action     |-> Cardinality({n \in DOMAIN fs["Needs_Action"] :
                                          n[Len(n)] = ".md" /\ n \notin processed_files}),
     pending_approval |-> Cardinality({n \in DOMAIN fs["Pending_Approval"] :
                                          n[Len(n)] = ".md"})]

\* count_items, lines 91-99: len(list(folder.glob('*.md'))); of the five
\* counts the two that update_dashboard writes
CountItems(fs) ==
    [needs_action     |-> Cardinality({n \in DOMAIN fs["Needs_Action"] :
                                          n[Len(n)] = ".md"}),
     pending_approval |-> Cardinality({n \in DOMAIN fs["Pending_Approval"] :
                                          n[Len(n)] = ".md"})]

\* the engine at the point of a cycle where update_dashboard is called, with
\* none or all of the items of Needs_Action handed to the agent before
InitDashboard ==
    /\ platform = "Posix"
    /\ vaultRelative = FALSE
    /\ cwd = "orig"
    /\ original_cwd = "orig"
    /\ files \in {Stocked(i, j) : i \in 0..MaxCount, j \in 0..MaxCount}
    /\ dashboard = "initial"
    /\ log = <<>>
    /\ processed_files \in {{}, {n \in DOMAIN files["Needs_Action"] : n[Len(n)] = ".md"}}
    /\ pc = "dashboard"
    /\ pending = {}
    /\ outcome = "none"
    /\ todo = {}
    /\ item = <<>>
    /\ result = NoResult
    /\ executed = {}
    /\ invoked = {}
    /\ processed_ids = {}
    /\ created = {}
    /\ moved = {}
    /\ handed = {}
    /\ dirs = Folders
    /\ clock \in 0..MaxClock
    /\ message = NoMessage
    /\ action_file = <<>>
    /\ planned = NotPlanned
    /\ document \in DashboardDocs
    /\ extracted = NotExtracted
    /\ counts = CountItems(files)
    /\ syncs = 0
    /\ InitWatchers

\* update_dashboard, lines 106-132: read_text, count_items, the
\* substitutions, write_text
DashboardSync ==
    /\ syncs < MaxSyncs
    /\ counts' = CountItems(files)
    /\ document' = UpdateDashboardText(document, CountItems(files), Isoformat(clock))
    /\ syncs' = syncs + 1
    /\ UNCHANGED <<dirs, extracted>>
    /\ UNCHANGED watcherVars
    /\ UNCHANGED <<creatorVars, cfgVars, envVars, orchVars, files>>

NextDashboard == DashboardSync

SpecDashboard == InitDashboard /\ [][NextDashboard]_vars

(***************************************************************************)
(* The Gmail watcher: BaseWatcher.run polls check_for_updates and calls    *)
(* create_action_file for every item of the poll.  The API lists each      *)
(* unread message once; a service that cannot be built, an HttpError and   *)
(* any other exception of the listing all make the poll return [].         *)
(***************************************************************************)
\* how often the action file of one id is written in a run
MaxWrites == 2

\* _save_processed_ids, line 84: the number of ids kept
CacheSize == 1000

Range(q) == {q[i] : i \in DOMAIN q}

\* the lists of distinct elements of S
Listings(S) ==
    UNION {{q \in [1..n -> S] : \A i, j \in 1..n : q[i] = q[j] => i = j} :
              n \in 0..Cardinality(S)}

\* check_for_updates, line 176: the listed messages whose id is not processed
NewMessages(listing, ids) == SelectSeq(listing, LAMBDA m : m \notin ids)

\* _save_processed_ids, lines 84-85: set(list(ids)[-1000:]), any 1000 of them
Kept(ids) ==
    IF Cardinality(ids) > CacheSize
    THEN {k \in SUBSET ids : Cardinality(k) = CacheSize}
    ELSE {ids}

\* a create_action_file that marks the id whatever became of the file
ProcessedAfterAnyOutcome(ids, id, written) == ids \cup {id}

\* create_action_file, lines 246-249: the id is added once write_text has
\* returned; an exception before that leaves the set as it was
ProcessedAfter(ids, id, written) == IF written THEN ids \cup {id} ELSE ids

InitGmail ==
    /\ InitOrchestrator
    /\ platform = "Posix"
    /\ vaultRelative = FALSE
    /\ dashboard = "initial"
    /\ dirs = Folders
    /\ clock = 0
    /\ InitUnits

\* run, line 73, and check_for_updates, lines 141-188; a poll that raises
\* returns what a poll with nothing listed returns
RunChecksForUpdates ==
    /\ wpc = "check"
    /\ \E listing \in Listings(MailIds) :
          /\ messages' = listing
          /\ new_messages' = NewMessages(listing, processed_ids)
    /\ wpc' = IF new_messages' = <<>> THEN "sleep" ELSE "create"
    /\ UNCHANGED <<cache_file, failed, writes, processed_ids, files>>
    /\ UNCHANGED <<lpc, processed_notifications, notifications>>
    /\ UNCHANGED <<dirs, document, extracted, counts, syncs>>
    /\ UNCHANGED <<creatorVars, cfgVars, orchVars, created, moved>>

\* run, lines 74-79, and create_action_file, lines 190-255, for the next item
\* of the poll: the message is fetched, the file written, the id added and
\* the set saved; an exception of any step is logged by run, which goes on
RunCreatesActionFile ==
    /\ wpc = "create"
    /\ new_messages # <<>>
    /\ LET id == Head(new_messages)
           k  == CHOOSE key \in MessageKeys : Message(key).id = id
       IN  \E written \in BOOLEAN :
             /\ written => writes[id] < MaxWrites
             /\ files' = IF written
                         THEN Put(files, "Needs_Action", ItemName(id), <<"item", k>>)
                         ELSE files
             /\ writes' = IF written THEN [writes EXCEPT ![id] = @ + 1] ELSE writes
             /\ failed' = IF written THEN failed \ {id} ELSE failed \cup {id}
             /\ \E kept \in Kept(ProcessedAfter(processed_ids, id, written)) :
                    /\ processed_ids' = kept
                    /\ \/ cache_file' = IF written THEN kept ELSE cache_file
                       \/ cache_file' = cache_file
    /\ new_messages' = Tail(new_messages)
    /\ wpc' = IF Tail(new_messages) = <<>> THEN "sleep" ELSE "create"
    /\ UNCHANGED messages
    /\ UNCHANGED <<lpc, processed_notifications, notifications>>
    /\ UNCHANGED <<dirs, document, extracted, counts, syncs>>
    /\ UNCHANGED <<creatorVars, cfgVars, orchVars, created, moved>>

\* run, line 83: time.sleep(check_interval)
RunSleeps ==
    /\ wpc = "sleep"
    /\ wpc' = "check"
    /\ UNCHANGED <<messages, new_messages, cache_file, failed, writes, processed_ids, files>>
    /\ UNCHANGED <<lpc, processed_notifications, notifications>>
    /\ UNCHANGED <<dirs, document, extracted, counts, syncs>>
    /\ UNCHANGED <<creatorVars, cfgVars, orchVars, created, moved>>

\* the watcher is stopped and started again: __init__, lines 50-63, and
\* _load_processed_ids, lines 65-78
WatcherRestarts ==
    /\ processed_ids' = cache_file
    /\ messages' = <<>>
    /\ new_messages' = <<>>
    /\ wpc' = "check"
    /\ UNCHANGED <<cache_file, failed, writes, files>>
    /\ UNCHANGED <<lpc, processed_notifications, notifications>>
    /\ UNCHANGED <<dirs, document, extracted, counts, syncs>>
    /\ UNCHANGED <<creatorVars, cfgVars, orchVars, created, moved>>

NextGmail ==
    \/ RunChecksForUpdates
    \/ RunCreatesActionFile
    \/ RunSleeps
    \/ WatcherRestarts

SpecGmail == InitGmail /\ [][NextGmail]_vars

(***************************************************************************)
(* The LinkedIn watcher: run polls check_notifications and calls           *)
(* create_notification_action_file for every notification of the poll.     *)
(* A page that does not load, and any exception of the browser, make the   *)
(* poll return what it has collected so far.                               *)
(***************************************************************************)
NotificationIds == {"n1", "n2", "n3"}

\* check_notifications, lines 161-163: the text holds one of the keywords
Keyworded(n) == n # "n3"

\* create_notification_action_file, line 286: int(time.time()) in the name
NotificationName(t) == <<"LINKEDIN_NOTIF_", ToString(t), ".md">>

InitLinkedIn ==
    /\ InitOrchestrator
    /\ platform = "Posix"
    /\ vaultRelative = FALSE
    /\ dashboard = "initial"
    /\ dirs = Folders
    /\ clock = 0
    /\ InitUnits

\* run, line 341, and check_notifications, lines 106-182: of the items the
\* page shows, those not yet processed whose text holds a keyword are
\* returned, and marked as processed as they are collected
RunChecksNotifications ==
    /\ lpc = "check"
    /\ \E shown \in Listings(NotificationIds) :
          LET found == SelectSeq(shown, LAMBDA n :
                           n \notin processed_notifications /\ Keyworded(n))
          IN  /\ notifications' = found
              /\ processed_notifications' = processed_notifications \cup Range(found)
              /\ lpc' = IF found = <<>> THEN "sleep" ELSE "create"
    /\ UNCHANGED <<wpc, messages, new_messages, cache_file, failed, writes,
                   processed_ids, files>>
    /\ UNCHANGED <<dirs, document, extracted, counts, syncs>>
    /\ UNCHANGED <<creatorVars, cfgVars, orchVars, created, moved>>

\* run, lines 343-347, and create_notification_action_file, lines 283-319,
\* for the next notification of the poll; an exception of write_text leaves
\* the for loop and is logged by run
RunCreatesNotificationFile ==
    /\ lpc = "create"
    /\ notifications # <<>>
    /\ \E written \in BOOLEAN :
          IF written
          THEN /\ files' = Put(files, "Needs_Action", NotificationName(clock),
                               <<"notification", Head(notifications)>>)
               /\ notifications' = Tail(notifications)
               /\ lpc' = IF Tail(notifications) = <<>> THEN "sleep" ELSE "create"
          ELSE /\ notifications' = <<>>
               /\ lpc' = "sleep"
               /\ UNCHANGED files
    /\ UNCHANGED <<wpc, messages, new_messages, cache_file, failed, writes,
                   processed_ids, processed_notifications>>
    /\ UNCHANGED <<dirs, document, extracted, counts, syncs>>
    /\ UNCHANGED <<creatorVars, cfgVars, orchVars, created, moved>>

\* time.time() moves on to the next second
SecondPasses ==
    /\ clock < MaxClock
    /\ clock' = clock + 1
    /\ UNCHANGED <<message, action_file, planned>>
    /\ UNCHANGED <<unitVars, cfgVars, envVars, orchVars, files>>

\* run, line 349: time.sleep(check_interval)
LinkedInSleeps ==
    /\ lpc = "sleep"
    /\ lpc' = "check"
    /\ UNCHANGED <<wpc, messages, new_messages, cache_file, failed, writes,
                   processed_ids, files, processed_notifications, notifications>>
    /\ UNCHANGED <<dirs, document, extracted, counts, syncs>>
    /\ UNCHANGED <<creatorVars, cfgVars, orchVars, created, moved>>

NextLinkedIn ==
    \/ RunChecksNotifications
    \/ RunCreatesNotificationFile
    \/ SecondPasses
    \/ LinkedInSleeps

SpecLinkedIn == InitLinkedIn /\ [][NextLinkedIn]_vars

(***************************************************************************)
(* The properties.                                                         *)
(***************************************************************************)

\* C1: a file name that is in processed_files is never part of a batch handed
\* to the reasoning agent, also while the file is still in Needs_Action.
C1_ProcessedNeverHandedAgain ==
    pc = "agent" => pending \cap processed_files = {}

\* a batch is with the agent while a processed file still lies in Needs_Action
C1_Witness ==
    /\ pc = "agent"
    /\ pending # {}
    /\ processed_files \cap DOMAIN files["Needs_Action"] # {}

\* C2: every item of the Approved listing that the loop of process_approved
\* is done with is in Done and no longer in Approved.
C2_ApprovedItemsArchived ==
    [][\A n \in todo :
          (pc \in {"dispatch", "move"} /\ n \notin todo') =>
              n \in DOMAIN files'["Done"] /\ n \notin DOMAIN files'["Approved"] ]_vars

\* C3: the executor runs for the request of a flagged item only when that
\* request was created in Pending_Approval and moved into Approved by the
\* human, and the request reaches Done only from Approved.
C3_FlaggedGoesThroughApproval ==
    [][\A k \in MessageKeys :
          Intake[k].needs_approval =>
              LET a == Intake[k].approval_name
              IN  /\ (a \in executed' /\ a \notin executed) =>
                         /\ a \in DOMAIN files["Approved"]
                         /\ a \in moved
                         /\ a \in created
                  /\ (a \in DOMAIN files'["Approved"] /\ a \notin DOMAIN files["Approved"]) =>
                         a \in DOMAIN files["Pending_Approval"]
                  /\ (a \in DOMAIN files'["Done"] /\ a \notin DOMAIN files["Done"]) =>
                         a \in DOMAIN files["Approved"] /\ a \in moved ]_vars

\* the reply to a flagged message has been sent, after its approval
C3_Witness ==
    \E k \in MessageKeys :
        /\ Intake[k].needs_approval
        /\ Intake[k].approval_name \in executed
        /\ Intake[k].approval_name \in DOMAIN files["Done"]

\* C4: no file name is in two stage directories at once.
C4_OneStageDirectory ==
    \A d1, d2 \in Dirs :
        d1 # d2 => DOMAIN files[d1] \cap DOMAIN files[d2] = {}

\* C5: the move from Approved to Done leaves the number of files of the stage
\* directories as it was.
C5_MoveKeepsFiles ==
    [][(pc = "move" /\ pc' # pc) =>
          Cardinality(UNION {{<<d, n>> : n \in DOMAIN files'[d]} : d \in Dirs})
              = Cardinality(UNION {{<<d, n>> : n \in DOMAIN files[d]} : d \in Dirs}) ]_vars

\* C6: after a successful invocation the batch is in processed_files; after a
\* failed one processed_files is as before and the next scan hands the same
\* items, if still in Needs_Action, to the agent again.
C6_FailedBatchResubmitted ==
    [][/\ (pc = "agent" /\ pc' # pc) =>
              IF outcome' = "ok" THEN pending \subseteq processed_files'
              ELSE processed_files' = processed_files
       /\ (/\ pc = "needs_action"
           /\ pc' \notin {pc, "except"}
           /\ outcome = "failed"
           /\ pending \subseteq DOMAIN files["Needs_Action"]) =>
              pc' = "agent" /\ pending \subseteq pending' ]_vars

\* C7: when the executor has failed for an item, the last entry of the log is
\* one with status failed.
C7_FailureLogged ==
    (pc = "move" /\ result.status = "error") =>
        log # <<>> /\ log[Len(log)].status = "failed"

\* C8: the executor counts as successful exactly when it exited with code 0
\* and printed the marker; exactly then one entry with status success is
\* appended, while the item is still in Approved, and the move appends nothing.
C8_SuccessIffExitAndMarker ==
    [][/\ (pc = "dispatch" /\ pc' = "move" /\ result'.exec.kind # "none") =>
              /\ (result'.status = "sent") <=>
                     (result'.exec.kind = "exit" /\ result'.exec.rc = 0
                         /\ result'.exec.marker)
              /\ IF result'.status = "sent"
                 THEN /\ Len(log') = Len(log) + 1
                      /\ SubSeq(log', 1, Len(log)) = log
                      /\ log'[Len(log')].status = "success"
                 ELSE log' = log
              /\ item' \in DOMAIN files'["Approved"]
              /\ files' = files
       /\ (pc = "move" /\ pc' # pc) => log' = log ]_vars

\* the executor has succeeded and the entry is written, the item not yet moved
C8_Witness ==
    /\ pc = "move"
    /\ result.status = "sent"
    /\ result.exec.rc = 0 /\ result.exec.marker
    /\ log # <<>> /\ log[Len(log)].status = "success"
    /\ item \in DOMAIN files["Approved"]

C10_UnknownActionArchived ==
    [][/\ \A n \in todo :
              (/\ pc = "dispatch"
               /\ n \in DOMAIN files["Approved"]
               /\ Extracted[files["Approved"][n]].action_type # <<"email_send">>) =>
                  /\ n \in todo'
                  /\ item' = n =>
                         /\ pc' = "move"
                         /\ result'.exec.kind = "none"
                         /\ executed' = executed
                         /\ log' = log
       /\ (/\ pc = "move"
           /\ pc' # pc
           /\ result.status = "unknown"
           /\ item \in DOMAIN files["Approved"]) =>
              /\ item \in DOMAIN files'["Done"]
              /\ item \notin DOMAIN files'["Approved"]
              /\ executed' = executed
              /\ log' = log ]_vars

\* a request without an action tag is in Done, nothing executed, nothing logged
C10_Witness ==
    /\ ExternalName \in DOMAIN files["Done"]
    /\ files["Done"][ExternalName] = <<"external", "no_action">>
    /\ executed = {}
    /\ log = <<>>

\* C11: a step of the engine adds no file to Approved or Rejected and leaves
\* Needs_Action as it is; what it changes lies in Plans, Pending_Approval and
\* Done, and what it takes out of Approved goes to Done.
C11_EngineWritesConfined ==
    [][EngineStep =>
          /\ files'["Needs_Action"] = files["Needs_Action"]
          /\ files'["Rejected"] = files["Rejected"]
          /\ \A n \in DOMAIN files'["Approved"] :
                 n \in DOMAIN files["Approved"]
                     /\ files'["Approved"][n] = files["Approved"][n]
          /\ \A n \in DOMAIN files["Approved"] \ DOMAIN files'["Approved"] :
                 n \in DOMAIN files'["Done"] ]_vars

\* the engine has written a plan and a request and archived an approved
\* request, and the item it all came from is still in Needs_Action
C11_Witness ==
    /\ DOMAIN files["Plans"] # {}
    /\ DOMAIN files["Done"] # {}
    /\ DOMAIN files["Pending_Approval"] # {}
    /\ DOMAIN files["Needs_Action"] # {}

\* C12: an item whose recipient's domain is not one of the allow-listed
\* domains is flagged for approval; an item without a recipient is such an
\* item, and so is one whose recipient holds an allow-listed domain inside the
\* name of another domain.
C12_UnlistedRecipientFlagged ==
    planned.called =>
        LET to == Get(message.hdr, "To", <<>>)
        IN  ~(Len(to) = 2 /\ to[2] \in KnownContacts) => planned.needs_approval

\* C13: an item whose subject or whose text holds a sensitive keyword, in
\* whatever letter case, is flagged for approval, whoever the recipient is.
C13_SensitiveKeywordFlagged ==
    planned.called =>
        LET subject == Lower(Get(message.hdr, "Subject", <<>>))
            body    == Lower(message.body)
        IN  (\E kw \in SensitiveKeywords : Contains(subject, kw) \/ Contains(body, kw))
                => planned.needs_approval

\* C14: only the two rules flag an item: one whose recipient is in an
\* allow-listed domain and whose subject and text hold no sensitive keyword is
\* not flagged, whatever else it holds.
C14_OnlyTwoRulesFlag ==
    planned.called =>
        LET to      == Get(message.hdr, "To", <<>>)
            subject == Lower(Get(message.hdr, "Subject", <<>>))
            body    == Lower(message.body)
        IN  /\ Len(to) = 2 /\ to[2] \in KnownContacts
            /\ ~\E kw \in SensitiveKeywords : Contains(subject, kw) \/ Contains(body, kw)
            => ~planned.needs_approval

C16_RerunLeavesPlans ==
    [][\A n \in DOMAIN files["Needs_Action"] :
          PlanCreatorProcess(n) =>
              LET k == files["Needs_Action"][n][2]
                  p == Intake[k].plan_name
              IN  (p \in DOMAIN files["Plans"] /\ files["Plans"][p][2] = k) =>
                      \A q \in DOMAIN files["Plans"] :
                          /\ q \in DOMAIN files'["Plans"]
                          /\ Text(files'["Plans"][q]) = Text(files["Plans"][q]) ]_vars

\* C17: one plan per item: when plan_creator.py handles an item, the plan of
\* every other item (the items have distinct file names and message ids) is
\* still in Plans afterwards, beside the plan of the item handled.
C17_OnePlanPerItem ==
    [][\A n \in DOMAIN files["Needs_Action"] :
          PlanCreatorProcess(n) =>
              LET k == files["Needs_Action"][n][2]
              IN  \A q \in DOMAIN files["Plans"] :
                      files["Plans"][q][2] # k =>
                          /\ q \in DOMAIN files'["Plans"]
                          /\ files'["Plans"][q] = files["Plans"][q] ]_vars

\* C17, amended: one plan per first eight characters of the message id: when
\* plan_creator.py handles an item, the item's plan is in Plans afterwards,
\* every plan under another name is as it was, and the items whose ids differ
\* from this one's in their first eight characters have their plans under
\* other names; the items that share the eight characters share the plan
\* file, which now holds the plan of the item handled last.
C17_OnePlanPerIdPrefix ==
    [][\A n \in DOMAIN files["Needs_Action"] :
          PlanCreatorProcess(n) =>
              LET k == files["Needs_Action"][n][2]
                  p == Intake[k].plan_name
              IN  /\ p \in DOMAIN files'["Plans"]
                  /\ files'["Plans"][p] = <<"plan", k, clock>>
                  /\ \A q \in DOMAIN files["Plans"] \ {p} :
                         /\ q \in DOMAIN files'["Plans"]
                         /\ files'["Plans"][q] = files["Plans"][q]
                  /\ \A m \in DOMAIN files["Needs_Action"] :
                         LET j == files["Needs_Action"][m][2]
                         IN  (Intake[j].plan_name = p)
                                <=> (First8(Message(j).id) = First8(Message(k).id)) ]_vars

\* three items, two of them with the same first eight characters, all planned
C17_Witness ==
    /\ Cardinality(DOMAIN files["Needs_Action"]) = 3
    /\ Cardinality(DOMAIN files["Plans"]) = 2
    /\ \E q \in DOMAIN files["Plans"] : files["Plans"][q][2] = "Msg2"
    /\ \E q \in DOMAIN files["Pending_Approval"] : files["Pending_Approval"][q][2] = "Msg1"

\* C18: the related_to field of a plan is the file name of the item the plan
\* was made from, whatever the length of the item's message id.
C18_BackReferenceIsItemName ==
    planned.called =>
        ExtractField(planned.plan, "related_to:") = ItemName(message.id)

\* C19: a plan has exactly four checklist steps, in the order analyze, draft,
\* request approval or send, log and archive; only the first is ticked; the
\* third is the request for approval exactly when the plan was made with the
\* flag set, and approval_required is that flag.
C19_FourStepChecklist ==
    planned.called =>
        LET IsStep(line) == /\ Len(line) = 5
                            /\ line[1] = "-"
                            /\ line[3] \in {"[x]", "[ ]"}
            steps == SelectSeq(planned.plan, IsStep)
        IN  /\ Len(steps) = 4
            /\ steps[1] = <<"-", " ", "[x]", " ", "**Step 1: Read and analyze email**">>
            /\ steps[2] = <<"-", " ", "[ ]", " ", "**Step 2: Draft reply**">>
            /\ steps[3] = <<"-", " ", "[ ]", " ",
                             IF planned.needs_approval
                             THEN "**Step 3: Request approval**"
                             ELSE "**Step 3: Send email**">>
            /\ steps[4] = <<"-", " ", "[ ]", " ", "**Step 4: Log and archive**">>
            /\ ExtractField(planned.plan, "approval_required:")
                   = <<IF planned.needs_approval THEN "true" ELSE "false">>

C19_Witness ==
    /\ planned.called
    /\ ~planned.needs_approval
    /\ \E i \in 1..Len(planned.plan) :
           planned.plan[i] = <<"-", " ", "[ ]", " ", "**Step 3: Send email**">>
    /\ clock = MaxClock

\* C20: when the dashboard document does not exist, update_dashboard does
\* nothing: the document is not created, and no file of a stage directory and
\* no log entry is written, whatever the cycle and the number of items in the
\* stages.
C20_AbsentDashboardUntouched ==
    [][(UpdateDashboard /\ dashboard = "absent") =>
          /\ dashboard' = "absent"
          /\ files' = files
          /\ log' = log ]_vars

\* a cycle that found items in Needs_Action has ended without a dashboard
C20_Witness ==
    /\ pc = "sleep"
    /\ dashboard = "absent"
    /\ handed # {}
    /\ DOMAIN files["Needs_Action"] # {}
    /\ DOMAIN files["Pending_Approval"] # {}

\* C21: the sync changes only the last_updated line of the frontmatter and the
\* value cells of the Pending Items and Awaiting Approval rows: every other
\* line, a body line that holds the text "last_updated: " included, is the
\* same before and after.
C21_SyncTouchesOnlyItsFields ==
    [][DashboardSync =>
          /\ Len(document') = Len(document)
          /\ \A i \in 1..Len(document) :
                 \/ document'[i] = document[i]
                 \/ /\ i = 2
                    /\ document[1] = <<"---">>
                    /\ Head(document[2]) = "last_updated:"
                 \/ \E label \in {"**Pending Items**", "**Awaiting Approval**"} :
                        /\ Len(document[i]) = 9
                        /\ SubSeq(document[i], 1, 6) = RowPrefix(label)
                        /\ SubSeq(document'[i], 1, 6) = RowPrefix(label)
                        /\ SubSeq(document'[i], 8, 9) = SubSeq(document[i], 8, 9) ]_vars

\* C22: the sync is idempotent: with the stage counts and the timestamp
\* unchanged, a second run leaves the text exactly as the first run left it.
C22_SyncIdempotent ==
    [][(DashboardSync /\ syncs >= 1) => document' = document]_vars

C22_Witness ==
    /\ syncs = MaxSyncs
    /\ counts.needs_action = MaxCount
    /\ Len(document) > 2
    /\ document[2] = <<"last_updated:", " ", Isoformat(clock)>>
    /\ \E i \in 1..Len(document) :
           document[i] = RowPrefix("**Pending Items**") \o <<ToString(MaxCount), " ", "|">>

\* C23: a dashboard without the Pending Items row is synced all the same: the
\* row is not added (no line is), and the last_updated line and the Awaiting
\* Approval row carry the new timestamp and count; and the same with the two
\* rows exchanged.
C23_MissingRowTolerated ==
    [][DashboardSync =>
          \A missing \in {"**Pending Items**", "**Awaiting Approval**"} :
              ~HasRow(document, missing) =>
                  /\ Len(document') = Len(document)
                  /\ ~HasRow(document', missing)
                  /\ \A i \in 1..(Len(document) - 1) :
                         /\ Head(document[i] \o <<"">>) = "last_updated:" =>
                                document'[i] = <<"last_updated:", " ", Isoformat(clock)>>
                         /\ \A present \in {"**Pending Items**", "**Awaiting Approval**"} :
                                (/\ Len(document[i]) = 9
                                 /\ SubSeq(document[i], 1, 6) = RowPrefix(present)
                                 /\ IsDigits(document[i][7]))
                                => document'[i] = RowPrefix(present) \o
                                      << ToString(IF present = "**Pending Items**"
                                                  THEN counts.needs_action
                                                  ELSE counts.pending_approval),
                                         " ", "|" >> ]_vars

C23_Witness ==
    /\ syncs = 1
    /\ counts.pending_approval = 1
    /\ ~HasRow(document, "**Pending Items**")
    /\ Len(document) > 2
    /\ document[2] = <<"last_updated:", " ", Isoformat(clock)>>
    /\ \E i \in 1..Len(document) :
           document[i] = RowPrefix("**Awaiting Approval**") \o <<"1", " ", "|">>

\* C24: the fields the dispatch reads (action, to, subject) come from the
\* header region between the first two '---' lines only: the value extracted
\* from a text is the value extracted from its header region alone, whatever
\* 'key: value' lines the body holds.
C24_FieldsFromHeaderOnly ==
    extracted.called =>
        LET rules  == {i \in 1..Len(document) : document[i] = <<"---">>}
            first  == CHOOSE i \in rules : \A j \in rules : i <= j
            later  == {i \in rules : i > first}
            second == CHOOSE i \in later : \A j \in later : i <= j
            header == IF rules = {} \/ later = {} THEN <<>>
                      ELSE SubSeq(document, first, second)
        IN  /\ extracted.action_type
                   = ExtractFieldFrom(header, "action:", extracted.default, 1)
            /\ extracted.to_email
                   = ExtractFieldFrom(header, "to:", extracted.default, 1)
            /\ extracted.subject
                   = ExtractFieldFrom(header, "subject:", extracted.default, 1)

\* C25: field extraction is total and tolerant: for every text, with or
\* without frontmatter, and every key asked for, the result is the trimmed
\* value that stands on a line of that key, or the default the caller passed.
C25_ValueOrDefault ==
    extracted.called =>
        LET ValueOrDefault(key, value) ==
                \/ value = extracted.default
                \/ \E i \in 1..Len(document) :
                       /\ document[i] # <<>>
                       /\ Head(document[i]) = key
                       /\ value = Strip(Tail(document[i]))
        IN  /\ ValueOrDefault("action:", extracted.action_type)
            /\ ValueOrDefault("to:", extracted.to_email)
            /\ ValueOrDefault("subject:", extracted.subject)

\* C26: the body is the text under the first accepted heading, the headings
\* taken in the order Suggested Reply, Reply Content, Content, Email Body; when
\* there is none it is the text after the frontmatter block without its
\* heading lines (here: without its rule lines either), so no line of the
\* frontmatter is in it, and a text with a line after its frontmatter that is
\* neither blank nor a heading nor a rule has a body that is not empty.
C26_BodyOfTheSectionOrAfterHeader ==
    extracted.called =>
        LET found   == {p \in 1..Len(Patterns) : SectionLine(document, Patterns[p], 1) # 0}
            p1      == CHOOSE q \in found : \A r \in found : q <= r
            rules   == {i \in 2..Len(document) : document[i] = <<"---">>}
            close   == CHOOSE i \in rules : \A j \in rules : i <= j
            framed  == Len(document) > 0 /\ document[1] = <<"---">> /\ rules # {}
            after   == SubSeq(document, close + 1, Len(document))
            IsText(line) == line # <<>> /\ line[1] \notin {"#", "##", "---"}
        IN  /\ found # {} =>
                   extracted.body
                       = SectionBody(document, SectionLine(document, Patterns[p1], 1))
            /\ (found = {} /\ framed) =>
                   extracted.body = StripText(Join(SelectSeq(after, LAMBDA l : l = <<>> \/ IsText(l))))
            /\ (framed /\ \E i \in 1..Len(after) : IsText(after[i]) /\ ~AllWs(after[i])) =>
                   extracted.body # <<>>

\* C27: the reply drafted for an item is the first template that matches, in
\* the order greeting (subject holds 'greeting' or the text holds 'how are
\* you'), invoice (subject holds 'invoice' or 'payment'), urgent (subject holds
\* 'urgent' or the text holds 'asap'), else the generic one; an item with
\* subject 'Invoice #4' whose text mentions 'payment' gets the invoice template.
C27_FirstMatchingTemplate ==
    (planned.called /\ planned.needs_approval) =>
        LET subject  == Lower(Get(message.hdr, "Subject", <<"No", " ", "Subject">>))
            body     == Lower(message.body)
            template == IF Contains(subject, "greeting")
                           \/ ContainsSeq(body, <<"how", " ", "are", " ", "you">>)
                        THEN GreetingReply
                        ELSE IF Contains(subject, "invoice") \/ Contains(subject, "payment")
                        THEN InvoiceReply
                        ELSE IF Contains(subject, "urgent") \/ Contains(body, "asap")
                        THEN UrgentReply
                        ELSE GenericReply
            approval == planned.approval
        IN  \E h \in 1..Len(approval) :
                /\ approval[h] = <<"##", " ", "Suggested", " ", "Reply">>
                /\ Len(approval) >= h + 1 + Len(template)
                /\ SubSeq(approval, h + 2, h + 1 + Len(template)) = template
                /\ approval[h + 2 + Len(template)] = <<>>

\* C28: the scan of a cycle that finds items in Needs_Action that are not in
\* processed_files goes on to one invocation of the agent, whose instruction
\* names every one of them; a scan that finds none goes on without one.
C28_OneInvocationPerBatch ==
    [][(pc = "needs_action" /\ pc' \notin {pc, "except"}) =>
          LET fresh == {n \in DOMAIN files["Needs_Action"] : n \notin processed_files}
          IN  IF fresh = {} THEN pc' # "agent"
              ELSE pc' = "agent" /\ pending' = fresh ]_vars

\* C29: once the engine is constructed, whatever directories the vault
\* lacked, there is a directory for every stage (Intake, NeedsAction, Plan,
\* PendingApproval, Approved, Rejected, Done) and one for the logs.
C29_StageDirectoriesExist ==
    pc # "new" =>
        {"Inbox", "Needs_Action", "Plans", "Pending_Approval", "Approved", "Rejected",
         "Done", "Logs"} \subseteq dirs

\* C30: the action log is append-only: it changes only by one record added
\* at its end, with status success or failed; and every call of log_action,
\* the one after a successful send and the one of the except clause, adds
\* exactly one record.
C30_LogAppendOnly ==
    [][/\ log' # log =>
              /\ Len(log') = Len(log) + 1
              /\ SubSeq(log', 1, Len(log)) = log
              /\ log'[Len(log')].status \in {"success", "failed"}
       /\ (pc = "dispatch" /\ pc' = "move" /\ result'.status = "sent") =>
              Len(log') = Len(log) + 1
       /\ (pc = "except" /\ pc' # pc) => Len(log') = Len(log) + 1 ]_vars

C30_Witness ==
    /\ Len(log) = 2
    /\ log[1].status = "success"
    /\ log[2].status = "failed"

\* C31: the executor is invoked at most once for an item that is in Approved,
\* however many cycles follow and also when the move to Done has failed: it is
\* not invoked for a name it was already invoked for since the human last
\* moved that name into Approved.
C31_ExecutorAtMostOnce ==
    [][\A n \in DOMAIN files["Approved"] :
          (pc = "dispatch" /\ pc' = "move" /\ item' = n /\ result'.exec.kind # "none")
              => n \notin invoked ]_vars

\* C32: a request written by process_email and moved to Approved as it is, is
\* dispatched with the recipient and the subject that stand on the to and
\* subject lines of its header and with the text of its Suggested Reply
\* section; the recipient is the address of the original sender (empty when
\* the From header is empty) and the subject is 'Re: ' and the original subject.
C32_DispatchedAsRequested ==
    extracted.called =>
        LET request == planned.approval
            Value(key) == LET i == CHOOSE j \in 1..Len(request) :
                                       request[j] # <<>> /\ Head(request[j]) = key
                          IN  Strip(Tail(request[i]))
            h       == CHOOSE j \in 1..Len(request) :
                           request[j] = <<"##", " ", "Suggested", " ", "Reply">>
            later   == {j \in (h + 1)..Len(request) :
                           request[j] # <<>> /\ Head(request[j]) = "##"}
            next    == CHOOSE j \in later : \A k \in later : j <= k
            from    == message.hdr["From"]
            opens   == {j \in 1..Len(from) : from[j] = "<"}
            open    == CHOOSE j \in opens : TRUE
            address == IF opens = {} THEN Strip(from)
                       ELSE Strip(SelectSeq(SubSeq(from, open + 1, Len(from)),
                                            LAMBDA t : t # ">"))
        IN  /\ extracted.to_email = Value("to:")
            /\ extracted.subject = Value("subject:")
            /\ extracted.body = StripText(Join(SubSeq(request, h + 1, next - 1)))
            /\ "From" \in DOMAIN message.hdr => extracted.to_email = address
            /\ extracted.subject
                   = <<"Re:", " ">> \o Get(message.hdr, "Subject", <<"No", " ", "Subject">>)

\* C34: trigger_qwen leaves the working directory as it found it, on every
\* path it returns by: after the call the working directory is the one the
\* call saved when it began.
C34_WorkingDirectoryRestored ==
    [][(pc = "agent" /\ pc' # pc) => cwd' = original_cwd]_vars

\* C33: while the loop keeps polling and the agent does not fail for ever, an
\* item of Needs_Action whose name is not in processed_files is at last part
\* of a batch that succeeds (its name comes into processed_files), unless it
\* leaves Needs_Action before; whatever failures of the agent went before.
C33_PendingItemEventuallyHanded ==
    \A k \in MessageKeys :
        LET n == ItemName(Message(k).id)
        IN  (platform = "Windows" /\ n \in DOMAIN files["Needs_Action"]
                                  /\ n \notin processed_files)
                ~> (n \in processed_files \/ n \notin DOMAIN files["Needs_Action"])

\* C35: a failure while one Approved item is handled (the file is gone when
\* it is read) does not keep the rest of the cycle from being done: the loop
\* over the listed items goes on to the next item, or, after the last, to the
\* update of the dashboard; it is never left for the except clause.
C35_ItemFailureIsolated ==
    [][(pc = "dispatch" /\ pc' # pc) => pc' \in {"move", "dashboard"}]_vars

\* C36: after the sync of a dashboard that has both rows, each with a number,
\* the Pending Items row shows the number of .md files in Needs_Action, those
\* in processed_files included, and the Awaiting Approval row the number of
\* .md files in Pending_Approval, whatever numbers the rows showed before.
C36_RowsShowTheCounts ==
    [][DashboardSync =>
          LET Row(i, label) == /\ Len(document[i]) = 9
                               /\ SubSeq(document[i], 1, 6) = RowPrefix(label)
                               /\ IsDigits(document[i][7])
                               /\ SubSeq(document[i], 8, 9) = <<" ", "|">>
              Md(d) == {n \in DOMAIN files[d] : n[Len(n)] = ".md"}
              lines == 1..Len(document)
          IN  (/\ \E i \in lines : Row(i, "**Pending Items**")
               /\ \E i \in lines : Row(i, "**Awaiting Approval**"))
              => \A i \in lines :
                    /\ Row(i, "**Pending Items**") =>
                           document'[i] = RowPrefix("**Pending Items**") \o
                               <<ToString(Cardinality(Md("Needs_Action"))), " ", "|">>
                    /\ Row(i, "**Awaiting Approval**") =>
                           document'[i] = RowPrefix("**Awaiting Approval**") \o
                               <<ToString(Cardinality(Md("Pending_Approval"))), " ", "|">>
      ]_vars

C36_Witness ==
    /\ syncs = 1
    /\ processed_files # {}
    /\ Cardinality(DOMAIN files["Needs_Action"]) = 3
    /\ Cardinality(DOMAIN files["Pending_Approval"]) = 1
    /\ \E i \in 1..Len(document) :
           document[i] = RowPrefix("**Pending Items**") \o <<"2", " ", "|">>
    /\ \E i \in 1..Len(document) :
           document[i] = RowPrefix("**Awaiting Approval**") \o <<"1", " ", "|">>

\* C37: a field's value comes from the key's own line only: when the first
\* line of the key holds nothing after the colon but blanks, the result is the
\* default and never text of a following line; so an approved email_send item
\* whose recipient line is empty has an empty recipient, which process_approved
\* takes for missing details.
C37_EmptyValueIsDefault ==
    extracted.called =>
        LET Lines(key) == {i \in 1..Len(document) :
                              document[i] # <<>> /\ Head(document[i]) = key}
            First(key) == CHOOSE i \in Lines(key) : \A j \in Lines(key) : i <= j
            Empty(key) == Lines(key) # {} /\ Strip(Tail(document[First(key)])) = <<>>
        IN  /\ Empty("action:")  => extracted.action_type = extracted.default
            /\ Empty("to:")      => extracted.to_email = extracted.default
            /\ Empty("subject:") => extracted.subject = extracted.default
            /\ (Empty("to:") /\ extracted.default = <<>>) => extracted.to_email = <<>>

\* C38: an id enters the Gmail watcher's processed set only in a step that has
\* written its action file; no file is written for an id that is in the set;
\* and a message whose last creation failed is among the items of the next
\* poll that lists it.
C38_ProcessedOnlyOnceWritten ==
    [][/\ \A id \in processed_ids' \ processed_ids :
              /\ writes'[id] = writes[id] + 1
              /\ ItemName(id) \in DOMAIN files'["Needs_Action"]
       /\ \A id \in processed_ids : writes'[id] = writes[id]
       /\ (wpc = "check" /\ wpc' # "check") =>
              \A id \in failed :
                  id \in Range(messages') => id \in Range(new_messages')
      ]_vars

\* a message whose creation failed has been offered again, after another
\* message was written and marked
C38_Witness ==
    /\ wpc = "create"
    /\ \E id \in failed : id \in Range(new_messages) /\ writes[id] = 0
    /\ \E id \in processed_ids :
           /\ writes[id] = 1
           /\ id \in Range(messages)
           /\ id \notin Range(new_messages)

\* C39: every notification a poll of the LinkedIn watcher returned has an
\* action file of its own once the poll's loop is over: as many files as
\* notifications, and no notification marked as processed without a file.
C39_OneFilePerNotification ==
    lpc = "sleep" =>
        \A n \in processed_notifications :
            \E f \in DOMAIN files["Needs_Action"] :
                files["Needs_Action"][f] = <<"notification", n>>

=============================================================================
